---- MODULE Spec2Model ----
(***************************************************************************)
(* A model of backend/app/agent.py (the agent orchestration loop run_agent, *)
(* the response parser safe_json_parse, the tool registry and the tool      *)
(* handlers' argument binding) and of the properties stated about them.     *)
(*                                                                          *)
(* A Python str is a sequence of one-character strings.  The text the       *)
(* reasoning engine returns is modelled character by character, since       *)
(* strip, startswith, replace, find, rfind and json.loads all look at its   *)
(* characters.  A literal of the program that is only ever concatenated     *)
(* into a produced string and never scanned (a source name, the fixed       *)
(* wording of an error message) is carried as one element of the sequence.  *)
(***************************************************************************)
EXTENDS Integers, Sequences, FiniteSets, TLC

----------------------------------------------------------------------------
(* Python str operations used by run_agent and safe_json_parse.             *)

\* the characters str.strip() removes and json skips between tokens
WS == {" ", "\n", "\t", "\r"}

\* str.lstrip() and str.rstrip()
lstrip(s) ==
    IF \A p \in 1..Len(s) : s[p] \in WS THEN <<>>
    ELSE SubSeq(s, CHOOSE p \in 1..Len(s) : s[p] \notin WS /\ \A q \in 1..(p - 1) : s[q] \in WS,
                Len(s))

rstrip(s) ==
    IF \A p \in 1..Len(s) : s[p] \in WS THEN <<>>
    ELSE SubSeq(s, 1,
                CHOOSE p \in 1..Len(s) : s[p] \notin WS /\ \A q \in (p + 1)..Len(s) : s[q] \in WS)

\* str.strip()
strip(s) == rstrip(lstrip(s))

\* str.startswith(p)
startswith(s, p) == Len(s) >= Len(p) /\ SubSeq(s, 1, Len(p)) = p

\* old occurs in s at position p (1-based)
OccursAt(s, old, p) == p + Len(old) - 1 <= Len(s) /\ SubSeq(s, p, p + Len(old) - 1) = old

\* str.replace(old, new), old not empty: every non-overlapping occurrence,
\* taken left to right
RECURSIVE replace(_, _, _)
replace(s, old, new) ==
    IF ~\E p \in 1..Len(s) : OccursAt(s, old, p) THEN s
    ELSE LET p == CHOOSE p \in 1..Len(s) :
                      OccursAt(s, old, p) /\ \A q \in 1..(p - 1) : ~OccursAt(s, old, q)
         IN  SubSeq(s, 1, p - 1) \o new
             \o replace(SubSeq(s, p + Len(old), Len(s)), old, new)

\* str.find(c): 0-based index of the first occurrence, -1 when there is none
find(s, c) ==
    IF \E i \in 1..Len(s) : s[i] = c
    THEN (CHOOSE i \in 1..Len(s) : s[i] = c /\ \A j \in 1..(i - 1) : s[j] # c) - 1
    ELSE -1

\* str.rfind(c): 0-based index of the last occurrence, -1 when there is none
rfind(s, c) ==
    IF \E i \in 1..Len(s) : s[i] = c
    THEN (CHOOSE i \in 1..Len(s) : s[i] = c /\ \A j \in (i + 1)..Len(s) : s[j] # c) - 1
    ELSE -1

\* text[start:end+1] for 0-based start, end >= 0 (empty when end < start)
Slice(s, start, end) == SubSeq(s, start + 1, end + 1)

----------------------------------------------------------------------------
(* JSON values.  A dict is the sequence of its <<key, value>> pairs in     *)
(* insertion order, keys unique.                                            *)

JStr(s)  == [t |-> "str",  v |-> s]
JInt(n)  == [t |-> "int",  v |-> n]
JBool(b) == [t |-> "bool", v |-> b]
JNull    == [t |-> "null", v |-> 0]
JObj(m)  == [t |-> "obj",  v |-> m]
JArr(xs) == [t |-> "arr",  v |-> xs]
\* a float, carried as the text repr() gives it
JFloat(s) == [t |-> "float", v |-> s]

HasKey(m, k) == \E p \in 1..Len(m) : m[p][1] = k

\* dict.get(k, default)
DictGet(m, k, default) ==
    IF HasKey(m, k) THEN m[CHOOSE p \in 1..Len(m) : m[p][1] = k][2] ELSE default

\* d[k] = v: a repeated key keeps its place and takes the last value
DictSet(m, k, x) ==
    IF HasKey(m, k)
    THEN [p \in 1..Len(m) |-> IF m[p][1] = k THEN <<k, x>> ELSE m[p]]
    ELSE Append(m, <<k, x>>)

Keys(m) == {m[p][1] : p \in 1..Len(m)}

\* Python's == on parsed JSON values: dicts compare regardless of key order
RECURSIVE JEq(_, _)
JEq(a, b) ==
    /\ a.t = b.t
    /\ CASE a.t = "obj" ->
              /\ Keys(a.v) = Keys(b.v)
              /\ \A k \in Keys(a.v) : JEq(DictGet(a.v, k, JNull), DictGet(b.v, k, JNull))
         [] a.t = "arr" ->
              /\ Len(a.v) = Len(b.v)
              /\ \A p \in 1..Len(a.v) : JEq(a.v[p], b.v[p])
         [] OTHER -> a.v = b.v

----------------------------------------------------------------------------
(* json.loads, by recursive descent as the decoder scans: objects, arrays,  *)
(* strings with backslash escapes, integers, true, false, null.  Fractions, *)
(* exponents and \u escapes are left out: no text of the model has them.    *)

Digits == <<"0", "1", "2", "3", "4", "5", "6", "7", "8", "9">>
IsDigit(c) == \E d \in 1..10 : Digits[d] = c
DigitVal(c) == (CHOOSE d \in 1..10 : Digits[d] = c) - 1

ParseFail == [ok |-> FALSE, val |-> JNull, pos |-> 0]
ParseOk(x, p) == [ok |-> TRUE, val |-> x, pos |-> p]

RECURSIVE SkipWS(_, _)
SkipWS(s, i) == IF i <= Len(s) /\ s[i] \in WS THEN SkipWS(s, i + 1) ELSE i

\* the character a backslash escape stands for ("" when it is no escape)
Unescape(c) ==
    CASE c = "\"" -> "\""
      [] c = "\\" -> "\\"
      [] c = "/"  -> "/"
      [] c = "n"  -> "\n"
      [] c = "t"  -> "\t"
      [] c = "r"  -> "\r"
      [] OTHER    -> ""

\* the decoder is strict: a raw control character ends the string with an error
RECURSIVE ScanString(_, _, _)
ScanString(s, i, acc) ==
    IF i > Len(s) THEN ParseFail
    ELSE IF s[i] = "\"" THEN ParseOk(JStr(acc), i + 1)
    ELSE IF s[i] = "\\"
         THEN IF i + 1 > Len(s) \/ Unescape(s[i + 1]) = "" THEN ParseFail
              ELSE ScanString(s, i + 2, Append(acc, Unescape(s[i + 1])))
    ELSE IF s[i] \in {"\n", "\t", "\r"} THEN ParseFail
    ELSE ScanString(s, i + 1, Append(acc, s[i]))

RECURSIVE ScanDigits(_, _, _)
ScanDigits(s, i, n) ==
    IF i <= Len(s) /\ IsDigit(s[i]) THEN ScanDigits(s, i + 1, 10 * n + DigitVal(s[i]))
    ELSE ParseOk(JInt(n), i)

\* -?(0|[1-9][0-9]*)
ScanNumber(s, i) ==
    LET neg == s[i] = "-"
        j   == IF neg THEN i + 1 ELSE i
        r   == IF j > Len(s) \/ ~IsDigit(s[j]) THEN ParseFail
               ELSE IF s[j] = "0" THEN ParseOk(JInt(0), j + 1)
               ELSE ScanDigits(s, j, 0)
    IN  IF r.ok /\ neg THEN ParseOk(JInt(0 - r.val.v), r.pos) ELSE r

IsWord(s, i, w) == i + Len(w) - 1 <= Len(s) /\ SubSeq(s, i, i + Len(w) - 1) = w

RECURSIVE ParseValue(_, _)
RECURSIVE ParseMembers(_, _, _)
RECURSIVE ParseElements(_, _, _)

\* a value starting at position i (whitespace before it already skipped)
ParseValue(s, i) ==
    IF i > Len(s) THEN ParseFail
    ELSE IF s[i] = "{"
         THEN LET j == SkipWS(s, i + 1)
              IN  IF j <= Len(s) /\ s[j] = "}" THEN ParseOk(JObj(<<>>), j + 1)
                  ELSE ParseMembers(s, j, <<>>)
    ELSE IF s[i] = "["
         THEN LET j == SkipWS(s, i + 1)
              IN  IF j <= Len(s) /\ s[j] = "]" THEN ParseOk(JArr(<<>>), j + 1)
                  ELSE ParseElements(s, j, <<>>)
    ELSE IF s[i] = "\"" THEN ScanString(s, i + 1, <<>>)
    ELSE IF IsWord(s, i, <<"n", "u", "l", "l">>) THEN ParseOk(JNull, i + 4)
    ELSE IF IsWord(s, i, <<"t", "r", "u", "e">>) THEN ParseOk(JBool(TRUE), i + 4)
    ELSE IF IsWord(s, i, <<"f", "a", "l", "s", "e">>) THEN ParseOk(JBool(FALSE), i + 5)
    ELSE IF s[i] = "-" \/ IsDigit(s[i]) THEN ScanNumber(s, i)
    ELSE ParseFail

\* "key" : value, then ',' and another member, or '}'
ParseMembers(s, i, acc) ==
    IF i > Len(s) \/ s[i] # "\"" THEN ParseFail
    ELSE LET k == ScanString(s, i + 1, <<>>)
         IN  IF ~k.ok THEN ParseFail
             ELSE LET j == SkipWS(s, k.pos)
                  IN  IF j > Len(s) \/ s[j] # ":" THEN ParseFail
                      ELSE LET x == ParseValue(s, SkipWS(s, j + 1))
                           IN  IF ~x.ok THEN ParseFail
                               ELSE LET e    == SkipWS(s, x.pos)
                                        acc2 == DictSet(acc, k.val.v, x.val)
                                    IN  IF e > Len(s) THEN ParseFail
                                        ELSE IF s[e] = "}" THEN ParseOk(JObj(acc2), e + 1)
                                        ELSE IF s[e] = ","
                                             THEN ParseMembers(s, SkipWS(s, e + 1), acc2)
                                        ELSE ParseFail

ParseElements(s, i, acc) ==
    LET x == ParseValue(s, i)
    IN  IF ~x.ok THEN ParseFail
        ELSE LET e    == SkipWS(s, x.pos)
                 acc2 == Append(acc, x.val)
             IN  IF e > Len(s) THEN ParseFail
                 ELSE IF s[e] = "]" THEN ParseOk(JArr(acc2), e + 1)
                 ELSE IF s[e] = "," THEN ParseElements(s, SkipWS(s, e + 1), acc2)
                 ELSE ParseFail

\* json.loads(s): one value and nothing but whitespace around it
loads(s) ==
    LET r == ParseValue(s, SkipWS(s, 1))
    IN  IF r.ok /\ SkipWS(s, r.pos) > Len(s) THEN r ELSE ParseFail

----------------------------------------------------------------------------
(* json.dumps with the default separators ", " and ": ".                    *)

RECURSIVE Escape(_)
Escape(s) ==
    IF s = <<>> THEN <<>>
    ELSE (CASE Head(s) = "\"" -> <<"\\", "\"">>
            [] Head(s) = "\\" -> <<"\\", "\\">>
            [] Head(s) = "\n" -> <<"\\", "n">>
            [] Head(s) = "\t" -> <<"\\", "t">>
            [] Head(s) = "\r" -> <<"\\", "r">>
            [] OTHER          -> <<Head(s)>>) \o Escape(Tail(s))

RECURSIVE NatText(_)
NatText(n) == IF n < 10 THEN <<Digits[n + 1]>> ELSE NatText(n \div 10) \o <<Digits[(n % 10) + 1]>>

IntText(n) == IF n < 0 THEN <<"-">> \o NatText(0 - n) ELSE NatText(n)

RECURSIVE dumps(_)
RECURSIVE DumpMembers(_)
RECURSIVE DumpElements(_)

dumps(x) ==
    CASE x.t = "str"  -> <<"\"">> \o Escape(x.v) \o <<"\"">>
      [] x.t = "int"  -> IntText(x.v)
      [] x.t = "float" -> x.v
      [] x.t = "bool" -> IF x.v THEN <<"t", "r", "u", "e">> ELSE <<"f", "a", "l", "s", "e">>
      [] x.t = "null" -> <<"n", "u", "l", "l">>
      [] x.t = "obj"  -> <<"{">> \o DumpMembers(x.v) \o <<"}">>
      [] x.t = "arr"  -> <<"[">> \o DumpElements(x.v) \o <<"]">>

DumpMembers(m) ==
    IF m = <<>> THEN <<>>
    ELSE dumps(JStr(m[1][1])) \o <<":", " ">> \o dumps(m[1][2])
         \o (IF Len(m) > 1 THEN <<",", " ">> \o DumpMembers(Tail(m)) ELSE <<>>)

DumpElements(xs) ==
    IF xs = <<>> THEN <<>>
    ELSE dumps(xs[1])
         \o (IF Len(xs) > 1 THEN <<",", " ">> \o DumpElements(Tail(xs)) ELSE <<>>)

----------------------------------------------------------------------------
(* safe_json_parse                                                          *)

\* the message of the ValueError safe_json_parse raises
ParseErrorMsg(text) == <<"Failed to parse JSON from LLM response: ">> \o text

\* safe_json_parse cutting the slice at the first '}' instead of the last
safe_json_parse_FirstClose(text) ==
    LET start == find(text, "{")
        end   == find(text, "}")
    IN  IF start = -1 \/ end = -1
        THEN [ok |-> FALSE, val |-> JNull, exc |-> "ValueError",
              msg |-> ParseErrorMsg(text), attempts |-> 0, repaired |-> FALSE, loaded |-> <<>>]
        ELSE LET json_text == Slice(text, start, end)
                 strict    == loads(json_text)
                 fallback  == loads(replace(json_text, <<"'">>, <<"\"">>))
             IN  IF strict.ok
                 THEN [ok |-> TRUE, val |-> strict.val, exc |-> "", msg |-> <<>>,
                       attempts |-> 1, repaired |-> FALSE, loaded |-> <<json_text>>]
                 ELSE IF fallback.ok
                 THEN [ok |-> TRUE, val |-> fallback.val, exc |-> "", msg |-> <<>>,
                       attempts |-> 2, repaired |-> TRUE,
                       loaded |-> <<json_text, replace(json_text, <<"'">>, <<"\"">>)>>]
                 ELSE [ok |-> FALSE, val |-> JNull, exc |-> "ValueError",
                       msg |-> ParseErrorMsg(text), attempts |-> 2, repaired |-> FALSE,
                       loaded |-> <<json_text, replace(json_text, <<"'">>, <<"\"">>)>>]

\* lines 461 and 466: json_text was bound and json.loads(json_text) gave res
Loaded(json_text, res) ==
    [raised |-> IF res.ok THEN "" ELSE "JSONDecodeError", bound |-> TRUE,
     json_text |-> json_text, val |-> res.val, loaded |-> <<json_text>>]

\* lines 453-461, the try block: the exception it raises ("" when it
\* returns), whether json_text was bound when it was raised, the value
\* returned, and the texts handed to json.loads
StrictAttempt(text) ==
    LET start == find(text, "{")
        end   == rfind(text, "}")
    IN  IF start = -1 \/ end = -1
        THEN [raised |-> "JSONDecodeError", bound |-> FALSE, json_text |-> <<>>,
              val |-> JNull, loaded |-> <<>>]
        ELSE Loaded(Slice(text, start, end), loads(Slice(text, start, end)))

\* lines 464-466, the fallback: json_text is read, which fails when the try
\* block raised before binding it
FallbackAttempt(first) ==
    IF ~first.bound
    THEN [raised |-> "UnboundLocalError", bound |-> FALSE, json_text |-> <<>>,
          val |-> JNull, loaded |-> <<>>]
    ELSE Loaded(replace(first.json_text, <<"'">>, <<"\"">>),
                loads(replace(first.json_text, <<"'">>, <<"\"">>)))

\* line 462: except json.JSONDecodeError
CaughtAsDecodeError(cls) == cls = "JSONDecodeError"

\* a fallback guarded by "except json.JSONDecodeError" like the try block
CaughtInFallback_DecodeErrorOnly(cls) == cls = "JSONDecodeError"

\* line 467: except Exception; both classes the fallback raises derive from it
CaughtInFallback(cls) == cls \in {"JSONDecodeError", "UnboundLocalError"}

\* the repair tried first: its value is returned when it parses
RepairFirst(text, first, second) ==
    IF first.bound /\ second.raised = ""
    THEN [ok |-> TRUE, val |-> second.val, exc |-> "", msg |-> <<>>,
          attempts |-> 1, repaired |-> TRUE, loaded |-> second.loaded]
    ELSE IF first.raised = ""
    THEN [ok |-> TRUE, val |-> first.val, exc |-> "", msg |-> <<>>,
          attempts |-> 2, repaired |-> FALSE, loaded |-> second.loaded \o first.loaded]
    ELSE [ok |-> FALSE, val |-> JNull, exc |-> "ValueError", msg |-> ParseErrorMsg(text),
          attempts |-> Len(second.loaded \o first.loaded), repaired |-> FALSE,
          loaded |-> second.loaded \o first.loaded]

\* a parser that repairs the quotes before it tries the strict parse
safe_json_parse_RepairFirst(text) ==
    RepairFirst(text, StrictAttempt(text), FallbackAttempt(StrictAttempt(text)))

\* lines 461-468: what the call gives, first being what the try block did and
\* second what the fallback does when it is entered
TryThenFallback(text, first, second) ==
    IF first.raised = ""
    THEN [ok |-> TRUE, val |-> first.val, exc |-> "", msg |-> <<>>,
          attempts |-> 1, repaired |-> FALSE, loaded |-> first.loaded]
    ELSE IF ~CaughtAsDecodeError(first.raised)
    THEN [ok |-> FALSE, val |-> JNull, exc |-> first.raised, msg |-> <<>>,
          attempts |-> Len(first.loaded), repaired |-> FALSE, loaded |-> first.loaded]
    ELSE IF second.raised = ""
    THEN [ok |-> TRUE, val |-> second.val, exc |-> "", msg |-> <<>>,
          attempts |-> Len(first.loaded \o second.loaded), repaired |-> TRUE,
          loaded |-> first.loaded \o second.loaded]
    ELSE IF CaughtInFallback(second.raised)
    THEN [ok |-> FALSE, val |-> JNull, exc |-> "ValueError", msg |-> ParseErrorMsg(text),
          attempts |-> Len(first.loaded \o second.loaded), repaired |-> FALSE,
          loaded |-> first.loaded \o second.loaded]
    ELSE [ok |-> FALSE, val |-> JNull, exc |-> second.raised, msg |-> <<>>,
          attempts |-> Len(first.loaded \o second.loaded), repaired |-> FALSE,
          loaded |-> first.loaded \o second.loaded]

\* lines 462-466: the fallback follows the try block
ThenFallback(text, first) == TryThenFallback(text, first, FallbackAttempt(first))

\* The result of safe_json_parse(text): the parsed value, or the exception
\* raised.  loaded holds the texts handed to json.loads, in order, attempts
\* counts them, repaired tells whether the single-quote fallback produced the
\* value.
safe_json_parse(text) == ThenFallback(text, StrictAttempt(text))

----------------------------------------------------------------------------
(* Words of the texts, character by character.                              *)

FINAL_MARKER == <<"F", "i", "n", "a", "l", " ", "A", "n", "s", "w", "e", "r", ":">>

N_get_live_rainfall_data ==
    <<"g", "e", "t", "_", "l", "i", "v", "e", "_", "r", "a", "i", "n", "f", "a", "l", "l",
      "_", "d", "a", "t", "a">>
N_get_local_agriculture_data ==
    <<"g", "e", "t", "_", "l", "o", "c", "a", "l", "_", "a", "g", "r", "i", "c", "u", "l",
      "t", "u", "r", "e", "_", "d", "a", "t", "a">>
N_get_district_production ==
    <<"g", "e", "t", "_", "d", "i", "s", "t", "r", "i", "c", "t", "_", "p", "r", "o", "d",
      "u", "c", "t", "i", "o", "n">>
N_get_production_trend ==
    <<"g", "e", "t", "_", "p", "r", "o", "d", "u", "c", "t", "i", "o", "n", "_", "t", "r",
      "e", "n", "d">>
N_get_rainfall_trend ==
    <<"g", "e", "t", "_", "r", "a", "i", "n", "f", "a", "l", "l", "_", "t", "r", "e", "n",
      "d">>
N_get_weather == <<"g", "e", "t", "_", "w", "e", "a", "t", "h", "e", "r">>

K_tool       == <<"t", "o", "o", "l">>
K_args       == <<"a", "r", "g", "s">>
K_state      == <<"s", "t", "a", "t", "e">>
K_year       == <<"y", "e", "a", "r">>
K_crop       == <<"c", "r", "o", "p">>
K_top_n      == <<"t", "o", "p", "_", "n">>
K_sort_order == <<"s", "o", "r", "t", "_", "o", "r", "d", "e", "r">>
K_start_year == <<"s", "t", "a", "r", "t", "_", "y", "e", "a", "r">>
K_end_year   == <<"e", "n", "d", "_", "y", "e", "a", "r">>
K_error      == <<"e", "r", "r", "o", "r">>
K_source     == <<"s", "o", "u", "r", "c", "e">>

W_Kerala == <<"K", "e", "r", "a", "l", "a">>
W_Punjab == <<"P", "u", "n", "j", "a", "b">>
W_Sure   == <<"S", "u", "r", "e", ":", " ">>
W_ok     == <<"o", "k">>

\* "s" and 's'
Q(s)  == <<"\"">> \o s \o <<"\"">>
SQ(s) == <<"'">> \o s \o <<"'">>

----------------------------------------------------------------------------
(* Data sources and the tools registry.                                     *)

RAINFALL_SOURCE_NAME ==
    <<"data.gov.in (Rainfall 1901-2017): https://api.data.gov.in/resource/8e0bd482-4aba-4d99-9cb9-ff124f6f1c2f">>
AGRICULTURE_SOURCE_NAME ==
    <<"data.gov.in (Crop Production): <LOCAL_CSV_PATH>">>

\* TOOLS, in registration order.  func names the handler; required and
\* optional are the parameters of its signature.
TOOLS ==
    << [name |-> N_get_live_rainfall_data, func |-> "get_live_rainfall_data",
        desc |-> <<"Get total/avg rainfall for a *single state* and *single year*. (Data 1901-2017 ONLY)">>,
        schema |-> JObj(<< <<K_state, JStr(<<"string">>)>>, <<K_year, JStr(<<"integer">>)>> >>)],
       [name |-> N_get_local_agriculture_data, func |-> "get_local_agriculture_data",
        desc |-> <<"Get agriculture data for a *single state* and *single year*. Provide 'crop' to get its total, or 'top_n' to get a list of top crops.">>,
        schema |-> JObj(<< <<K_state, JStr(<<"string">>)>>, <<K_year, JStr(<<"integer">>)>>,
                           <<K_crop, JStr(<<"string (optional)">>)>>,
                           <<K_top_n, JStr(<<"integer (optional, default 5)">>)>> >>)],
       [name |-> N_get_district_production, func |-> "get_district_production",
        desc |-> <<"Finds the district with the highest ('desc') or lowest ('asc') production for a *specific crop*, *state*, and *year*.">>,
        schema |-> JObj(<< <<K_state, JStr(<<"string">>)>>, <<K_crop, JStr(<<"string">>)>>,
                           <<K_year, JStr(<<"integer">>)>>,
                           <<K_sort_order, JStr(<<"string ('desc' or 'asc', default 'desc')">>)>> >>)],
       [name |-> N_get_production_trend, func |-> "get_production_trend",
        desc |-> <<"Get a time-series list of production for *one crop* in *one state* over a *range of years*.">>,
        schema |-> JObj(<< <<K_state, JStr(<<"string">>)>>, <<K_crop, JStr(<<"string">>)>>,
                           <<K_start_year, JStr(<<"integer">>)>>,
                           <<K_end_year, JStr(<<"integer">>)>> >>)],
       [name |-> N_get_rainfall_trend, func |-> "get_rainfall_trend",
        desc |-> <<"Get a time-series list of total rainfall for *one state* over a *range of years*. (Data 1901-2017 ONLY)">>,
        schema |-> JObj(<< <<K_state, JStr(<<"string">>)>>, <<K_start_year, JStr(<<"integer">>)>>,
                           <<K_end_year, JStr(<<"integer">>)>> >>)] >>

ToolNames == {TOOLS[n].name : n \in 1..Len(TOOLS)}

\* a registry check that accepts any string as a tool name
InTools_AnyString(tool_name) == tool_name.t = "str"

\* tool_name in TOOLS, for a hashable tool_name
InTools(tool_name) == tool_name.t = "str" /\ tool_name.v \in ToolNames

\* TOOLS[tool_name]["func"]; "" stands for the KeyError of a name that is no key
FuncOf(tool_name) ==
    IF \E n \in 1..Len(TOOLS) : TOOLS[n].name = tool_name.v
    THEN TOOLS[CHOOSE n \in 1..Len(TOOLS) : TOOLS[n].name = tool_name.v].func
    ELSE ""

\* a loop that runs once more than the step ceiling
MAX_STEPS_OffByOne == 8 + 1

MAX_STEPS == 8

\* "\n".join(parts)
RECURSIVE JoinLines(_)
JoinLines(parts) ==
    IF parts = <<>> THEN <<>>
    ELSE IF Len(parts) = 1 THEN parts[1]
    ELSE parts[1] \o <<"\n">> \o JoinLines(Tail(parts))

\* the backquote character, which a TLA+ string cannot hold
BACKQUOTE == "<backquote>"

\* the f-string of line 370 for one entry of the registry
ToolBlock(info) ==
    <<"- Tool: ", BACKQUOTE>> \o info.name
    \o <<BACKQUOTE, "\n  - Description: ">> \o info.desc
    \o <<"\n  - Arguments (JSON Schema): ">> \o dumps(info.schema)

\* a rendering that walks the registry from its last entry to its first
RenderTools_Reversed(tools) ==
    JoinLines([n \in 1..Len(tools) |-> ToolBlock(tools[Len(tools) + 1 - n])])

\* lines 368-371 for a registry holding tools, in the order of its items()
RenderTools(tools) ==
    JoinLines([n \in 1..Len(tools) |-> ToolBlock(tools[n])])

get_tool_definitions == RenderTools(TOOLS)

----------------------------------------------------------------------------
(* Exceptions and the tool handlers.  A handler's outcome is what calling   *)
(* it with the unpacked arguments does: it returns a mapping or raises.     *)
(* What the external                                                        *)
(* data (the rainfall API, the CSV file) holds is not fixed by the program, *)
(* so a handler that reaches it has one outcome per answer it can give.     *)

NoExc == [cls |-> "", msg |-> <<>>]
Exc(cls, msg) == [cls |-> cls, msg |-> msg]

\* the classes derived from Exception among those the model raises
ExceptionClasses == {"TypeError", "ValueError", "KeyError", "RuntimeError", "APIError"}

\* requests is the number of requests.get calls the handler made on its way
Returns(m) == [kind |-> "return", val |-> m, exc |-> NoExc, requests |-> 0]
Raises(e)  == [kind |-> "raise", val |-> JNull, exc |-> e, requests |-> 0]

\* the outcome o of a handler that called requests.get n times
AfterRequests(o, n) == [o EXCEPT !.requests = n]

\* str(x) as an f-string formats it, for the values that reach an f-string
PyStr(x) ==
    CASE x.t = "str"  -> x.v
      [] x.t = "null" -> <<"N", "o", "n", "e">>
      [] x.t = "bool" -> IF x.v THEN <<"T", "r", "u", "e">> ELSE <<"F", "a", "l", "s", "e">>
      [] OTHER        -> dumps(x)

\* a value Python compares and converts as a number
IsNumber(x) == x.t \in {"int", "bool"}
NumberOf(x) == IF x.t = "bool" THEN (IF x.v THEN 1 ELSE 0) ELSE x.v

\* the parameters of each handler's signature
Signature(func) ==
    CASE func = "get_live_rainfall_data" ->
            [required |-> {K_state, K_year}, optional |-> {}]
      [] func = "get_local_agriculture_data" ->
            [required |-> {K_state, K_year}, optional |-> {K_crop, K_top_n}]
      [] func = "get_district_production" ->
            [required |-> {K_state, K_crop, K_year}, optional |-> {K_sort_order}]
      [] func = "get_production_trend" ->
            [required |-> {K_state, K_crop, K_start_year, K_end_year}, optional |-> {}]
      [] func = "get_rainfall_trend" ->
            [required |-> {K_state, K_start_year, K_end_year}, optional |-> {}]

\* the TypeError of the call with unpacked arguments itself, NoExc when they bind
BindError(func, a) ==
    LET sig == Signature(func)
    IN  IF a.t # "obj"
        THEN Exc("TypeError", <<func, "() argument after ** must be a mapping">>)
        ELSE IF Keys(a.v) \ (sig.required \cup sig.optional) # {}
        THEN Exc("TypeError", <<func, "() got an unexpected keyword argument">>)
        ELSE IF sig.required \ Keys(a.v) # {}
        THEN Exc("TypeError", <<func, "() missing required positional argument">>)
        ELSE NoExc

ErrorResult(msg, source) == JObj(<< <<K_error, JStr(msg)>>, <<K_source, JStr(source)>> >>)

\* figures read from the external data
SomeRainfall   == JFloat(<<"3", "0", "5", "5", ".", "2">>)
SomeProduction == JFloat(<<"1", "2", ".", "5">>)

\* lines 115-148: the API is asked; what it answers is not the program's to fix
AskRainfallApi(state, year) ==
    {AfterRequests(o, 1) :
        o \in {Returns(ErrorResult(<<"No rainfall records returned by API.">>, RAINFALL_SOURCE_NAME)),
               Returns(ErrorResult(<<"Unexpected error in rainfall API: ">>, RAINFALL_SOURCE_NAME))}
              \cup (IF state.t = "str"
                    THEN {Returns(JObj(<< <<K_state, state>>,
                                          <<K_year, JInt(NumberOf(year))>>,
                                          <<<<"total_rainfall_mm">>, SomeRainfall>>,
                                          <<<<"average_monthly_rainfall_mm">>, SomeRainfall>>,
                                          <<K_source, JStr(RAINFALL_SOURCE_NAME)>> >>))}
                    ELSE {})}

\* a handler that asks the API for any year
get_live_rainfall_data_NoRangeCheck(state, year) ==
    IF ~IsNumber(year)
    THEN {Raises(Exc("TypeError", <<"'<=' not supported between instances of 'int' and ">>
                                  \o <<year.t>>))}
    ELSE AskRainfallApi(state, year)

\* get_live_rainfall_data(state, year)
get_live_rainfall_data(state, year) ==
    IF ~IsNumber(year)
    THEN {Raises(Exc("TypeError", <<"'<=' not supported between instances of 'int' and ">>
                                  \o <<year.t>>))}
    ELSE IF ~(1901 <= NumberOf(year) /\ NumberOf(year) <= 2017)
    THEN {Returns(ErrorResult(<<"Invalid year ">> \o PyStr(year)
                              \o <<". Data is only available from 1901 to 2017.">>,
                              RAINFALL_SOURCE_NAME))}
    ELSE AskRainfallApi(state, year)

\* int(x): the number and whether the conversion succeeds (a str of digits converts)
IntOk(x) == IsNumber(x) \/ (x.t = "str" /\ x.v # <<>> /\ \A p \in 1..Len(x.v) : IsDigit(x.v[p]))
IntOf(x) == IF IsNumber(x) THEN NumberOf(x) ELSE ScanDigits(x.v, 1, 0).val.v

\* get_local_agriculture_data(state, year, crop, top_n): the whole body is in a try
get_local_agriculture_data(a) ==
    LET state == DictGet(a, K_state, JNull)
        year  == DictGet(a, K_year, JNull)
        crop  == DictGet(a, K_crop, JNull)
        src   == AGRICULTURE_SOURCE_NAME
    IN  IF state.t # "str" \/ ~IntOk(year)
        THEN {Returns(ErrorResult(<<"Unexpected error while reading CSV: ">>, src))}
        ELSE {Returns(ErrorResult(<<"No agriculture data found for ">> \o PyStr(state)
                                  \o <<" in ">> \o PyStr(year) \o <<".">>, src))}
             \cup (IF crop.t = "str" /\ crop.v # <<>>
                   THEN {Returns(JObj(<< <<K_state, state>>, <<K_year, year>>, <<K_crop, crop>>,
                                         <<<<"total_production_tonnes">>, SomeProduction>>,
                                         <<K_source, JStr(src)>> >>))}
                   ELSE {Returns(JObj(<< <<K_state, state>>, <<K_year, year>>,
                                         <<<<"top_crops">>, JArr(<<>>)>>,
                                         <<K_source, JStr(src)>> >>))})

\* get_district_production(state, crop, year, sort_order): the whole body is in a try
get_district_production(a) ==
    LET state == DictGet(a, K_state, JNull)
        year  == DictGet(a, K_year, JNull)
        crop  == DictGet(a, K_crop, JNull)
        order == DictGet(a, K_sort_order, JStr(<<"d", "e", "s", "c">>))
        label == IF order = JStr(<<"a", "s", "c">>) THEN <<"lowest_production_district">>
                 ELSE <<"highest_production_district">>
        src   == AGRICULTURE_SOURCE_NAME
    IN  IF state.t # "str" \/ crop.t # "str" \/ ~IntOk(year)
        THEN {Returns(ErrorResult(<<"Unexpected error in get_district_production: ">>, src))}
        ELSE {Returns(ErrorResult(<<"No data found for ">> \o PyStr(crop) \o <<" in ">>
                                  \o PyStr(state) \o <<" in ">> \o PyStr(year) \o <<".">>, src)),
              Returns(JObj(<< <<K_state, state>>, <<K_year, year>>, <<K_crop, crop>>,
                              <<label, JObj(<< <<<<"district">>, JStr(<<"<district>">>)>>,
                                               <<<<"production_tonnes">>, SomeProduction>> >>)>>,
                              <<K_source, JStr(src)>> >>))}

\* get_production_trend(state, crop, start_year, end_year): the whole body is in a try
get_production_trend(a) ==
    LET state == DictGet(a, K_state, JNull)
        crop  == DictGet(a, K_crop, JNull)
        first == DictGet(a, K_start_year, JNull)
        last  == DictGet(a, K_end_year, JNull)
        src   == AGRICULTURE_SOURCE_NAME
    IN  IF state.t # "str" \/ crop.t # "str" \/ ~IntOk(first) \/ ~IntOk(last)
        THEN {Returns(ErrorResult(<<"Unexpected error in get_production_trend: ">>, src))}
        ELSE {Returns(ErrorResult(<<"Unexpected error in get_production_trend: ">>, src)),
              Returns(JObj(<< <<K_state, state>>, <<K_crop, crop>>,
                              <<<<"trend">>,
                                JArr([y \in 1..(IntOf(last) - IntOf(first) + 1) |->
                                      JObj(<< <<K_year, JInt(IntOf(first) + y - 1)>>,
                                              <<<<"production_tonnes">>, SomeProduction>> >>)])>>,
                              <<K_source, JStr(src)>> >>))}

\* get_rainfall_trend(state, start_year, end_year): int() is applied outside any
\* try; every year of the clamped range is looked up on its own
get_rainfall_trend(a) ==
    LET state == DictGet(a, K_state, JNull)
        first == DictGet(a, K_start_year, JNull)
        last  == DictGet(a, K_end_year, JNull)
        bad   == IF ~IntOk(first) THEN first ELSE last
    IN  IF ~IntOk(first) \/ ~IntOk(last)
        THEN {Raises(Exc(IF bad.t = "str" THEN "ValueError" ELSE "TypeError",
                         <<"int() cannot convert ">> \o <<bad.t>>))}
        ELSE LET query_start == IF IntOf(first) > 1901 THEN IntOf(first) ELSE 1901
                 query_end   == IF IntOf(last) < 2017 THEN IntOf(last) ELSE 2017
                 n           == IF query_end >= query_start THEN query_end - query_start + 1 ELSE 0
                 Entry(year, r) ==
                     IF HasKey(r.v, K_error)
                     THEN JObj(<< <<K_year, JInt(year)>>, <<<<"total_rainfall_mm">>, JNull>>,
                                  <<<<"note">>, DictGet(r.v, K_error, JNull)>> >>)
                     ELSE JObj(<< <<K_year, JInt(year)>>,
                                  <<<<"total_rainfall_mm">>,
                                    DictGet(r.v, <<"total_rainfall_mm">>, JNull)>> >>)
                 Lookups(year) == {o.val : o \in get_live_rainfall_data(state, JInt(year))}
             IN  {AfterRequests(
                      Returns(JObj(<< <<K_state, state>>,
                                      <<<<"trend">>,
                                        JArr([y \in 1..n |-> Entry(query_start + y - 1, f[y])])>>,
                                      <<<<"note">>, JStr(<<"Rainfall data is limited to 1901-2017.">>)>>,
                                      <<K_source, JStr(RAINFALL_SOURCE_NAME)>> >>)), n)
                  : f \in {g \in [1..n -> UNION {Lookups(query_start + y - 1) : y \in 1..n}] :
                           \A y \in 1..n : g[y] \in Lookups(query_start + y - 1)}}

\* the call of the registered handler func with the unpacked arguments
HandlerOutcomes(func, a) ==
    IF func = "" THEN {Raises(Exc("KeyError", <<"<tool_name>">>))}
    ELSE IF BindError(func, a) # NoExc THEN {Raises(BindError(func, a))}
    ELSE CASE func = "get_live_rainfall_data" ->
                get_live_rainfall_data(DictGet(a.v, K_state, JNull), DictGet(a.v, K_year, JNull))
           [] func = "get_local_agriculture_data" -> get_local_agriculture_data(a.v)
           [] func = "get_district_production"    -> get_district_production(a.v)
           [] func = "get_production_trend"       -> get_production_trend(a.v)
           [] func = "get_rainfall_trend"         -> get_rainfall_trend(a.v)

----------------------------------------------------------------------------
(* What the reasoning engine may answer.                                    *)

\* plain prose: no brace in it
ReplyProse == <<"I", " ", "n", "e", "e", "d", " ", "d", "a", "t", "a", ".">>

ReplyFinal == FINAL_MARKER \o <<" ">> \o W_ok

\* a final answer, with whitespace around it, that quotes a well-formed tool call
ReplyFinalWithCall ==
    <<" ">> \o FINAL_MARKER \o <<" ", "{">> \o Q(K_tool) \o <<":", " ">>
    \o Q(N_get_local_agriculture_data) \o <<",", " ">> \o Q(K_args) \o <<":", " ", "{">>
    \o Q(K_state) \o <<":", " ">> \o Q(W_Punjab) \o <<",", " ">> \o Q(K_year)
    \o <<":", " ", "2", "0", "1", "2", "}", "}", "\n">>

\* a final answer whose text holds the marker a second time
ReplyFinalTwice == FINAL_MARKER \o <<" ", "a", " ">> \o FINAL_MARKER \o <<" ", "b">>

ReplyUnknownTool ==
    <<"{">> \o Q(K_tool) \o <<":", " ">> \o Q(N_get_weather) \o <<",", " ">> \o Q(K_args)
    \o <<":", " ", "{", "}", "}">>

ReplyNoToolKey == <<"{">> \o Q(K_args) \o <<":", " ", "{", "}", "}">>

ReplyRainfall1850 ==
    <<"{">> \o Q(K_tool) \o <<":", " ">> \o Q(N_get_live_rainfall_data) \o <<",", " ">>
    \o Q(K_args) \o <<":", " ", "{">> \o Q(K_state) \o <<":", " ">> \o Q(W_Kerala)
    \o <<",", " ">> \o Q(K_year) \o <<":", " ", "1", "8", "5", "0", "}", "}">>

ReplyMissingArg ==
    <<"{">> \o Q(K_tool) \o <<":", " ">> \o Q(N_get_live_rainfall_data) \o <<",", " ">>
    \o Q(K_args) \o <<":", " ", "{">> \o Q(K_state) \o <<":", " ">> \o Q(W_Kerala)
    \o <<"}", "}">>

\* a single-quoted tool call after a word of prose: parsed by the fallback
ReplyAgriQuoted ==
    W_Sure \o <<"{">> \o SQ(K_tool) \o <<":", " ">> \o SQ(N_get_local_agriculture_data)
    \o <<",", " ">> \o SQ(K_args) \o <<":", " ", "{">> \o SQ(K_state) \o <<":", " ">>
    \o SQ(W_Punjab) \o <<",", " ">> \o SQ(K_year)
    \o <<":", " ", "2", "0", "1", "2", "}", "}">>

\* tool calls whose arguments the handler cannot take
ReplyArgsNotMapping ==
    <<"{">> \o Q(K_tool) \o <<":", " ">> \o Q(N_get_rainfall_trend) \o <<",", " ">>
    \o Q(K_args) \o <<":", " ">> \o Q(W_Kerala) \o <<"}">>

ReplyBadYearType ==
    <<"{">> \o Q(K_tool) \o <<":", " ">> \o Q(N_get_live_rainfall_data) \o <<",", " ">>
    \o Q(K_args) \o <<":", " ", "{">> \o Q(K_state) \o <<":", " ">> \o Q(W_Kerala)
    \o <<",", " ">> \o Q(K_year) \o <<":", " ">> \o Q(<<"x">>) \o <<"}", "}">>

ReplyUnexpectedArg ==
    <<"{">> \o Q(K_tool) \o <<":", " ">> \o Q(N_get_live_rainfall_data) \o <<",", " ">>
    \o Q(K_args) \o <<":", " ", "{">> \o Q(K_state) \o <<":", " ">> \o Q(W_Kerala)
    \o <<",", " ">> \o Q(K_year) \o <<":", " ", "2", "0", "1", "2", ",", " ">>
    \o Q(K_crop) \o <<":", " ", "n", "u", "l", "l", "}", "}">>

ReplyTrendBadYear ==
    <<"{">> \o Q(K_tool) \o <<":", " ">> \o Q(N_get_rainfall_trend) \o <<",", " ">>
    \o Q(K_args) \o <<":", " ", "{">> \o Q(K_state) \o <<":", " ">> \o Q(W_Kerala)
    \o <<",", " ">> \o Q(K_start_year) \o <<":", " ">> \o Q(<<"x">>) \o <<",", " ">>
    \o Q(K_end_year) \o <<":", " ", "2", "0", "0", "0", "}", "}">>

\* a tool call the handler can take
ReplyRainfall2012 ==
    <<"{">> \o Q(K_tool) \o <<":", " ">> \o Q(N_get_live_rainfall_data) \o <<",", " ">>
    \o Q(K_args) \o <<":", " ", "{">> \o Q(K_state) \o <<":", " ">> \o Q(W_Kerala)
    \o <<",", " ">> \o Q(K_year) \o <<":", " ", "2", "0", "1", "2", "}", "}">>

\* a call of get_live_rainfall_data for Kerala and the year
RainfallReply(year) ==
    <<"{">> \o Q(K_tool) \o <<":", " ">> \o Q(N_get_live_rainfall_data) \o <<",", " ">>
    \o Q(K_args) \o <<":", " ", "{">> \o Q(K_state) \o <<":", " ">> \o Q(W_Kerala)
    \o <<",", " ">> \o Q(K_year) \o <<":", " ">> \o IntText(year) \o <<"}", "}">>

\* the years an engine asks for: around both ends of the range the data covers
RainfallYears == {1850, 1900, 1901, 2017, 2018}

\* the replies that end the run
FinalReplies == {ReplyFinal, ReplyFinalWithCall, ReplyFinalTwice}

\* the replies that hold a JSON object
StructuredReplies ==
    {ReplyUnknownTool, ReplyNoToolKey, ReplyRainfall1850, ReplyMissingArg, ReplyAgriQuoted}

\* what a reply is, as the engine means it
KindOf(r) ==
    CASE r \in FinalReplies -> "final"
      [] r = ReplyProse -> "unparseable"
      [] r \in {ReplyUnknownTool, ReplyNoToolKey} -> "unknown_tool"
      [] OTHER -> "tool_call"

\* the ways llm_call fails: the RuntimeError the langchain branch wraps the
\* provider's failure in, or the provider's own exception on the openai branch
LlmErrors ==
    {Exc("RuntimeError", <<"LLM call failed (langchain_openai.invoke): ">>),
     Exc("APIError", <<"<provider error>">>)}

UserQuery == <<"r", "a", "i", "n", "?">>

\* the replies that dispatch a handler with arguments of every shape
ArgumentReplies ==
    {ReplyMissingArg, ReplyArgsNotMapping, ReplyBadYearType, ReplyUnexpectedArg,
     ReplyTrendBadYear, ReplyRainfall2012}

\* the replies that call get_live_rainfall_data
RainfallReplies == {RainfallReply(y) : y \in RainfallYears} \cup {ReplyBadYearType}

\* how many replies holding a JSON object the engine gives in one run
MaxStructured == 2

----------------------------------------------------------------------------
(* run_agent                                                                *)

VARIABLES
    user_query,     \* the argument of run_agent
    history,        \* the list of {role, content} entries
    i,              \* the value range(MAX_STEPS) yields next
    prompt,         \* the fields AGENT_SYSTEM_PROMPT is formatted with
    raw_response,   \* what llm_call returned in this step
    tool_name,      \* choice.get("tool") of the call being dispatched
    args,           \* choice.get("args", {}) of the call being dispatched
    result,         \* what the handler returned last
    returned,       \* the value run_agent returns: [key, value]; key "" while running
    pc,             \* "for", "llm", "classify", "tool", "done"
    event,          \* what the last action did
    llmCalls,       \* calls of llm_call made
    toolCalls,      \* handler calls made
    requestsMade,   \* calls of requests.get the handlers made
    parseCalls,     \* calls of safe_json_parse made
    trace,          \* what each call of llm_call gave, in order
    replies,        \* the replies holding JSON this engine may give
    structuredUsed  \* how many of them it has given

\* the inputs and results of safe_json_parse applied on its own
VARIABLES
    before,         \* the prose before the object
    obj,            \* the tool-call object
    after,          \* the prose after the object
    input,          \* the text given to safe_json_parse
    parsed,         \* what safe_json_parse gave
    ppc             \* "idle", "input", "embedded", "parsed"

\* the serving endpoint: the worker threads that run handle_query, and the
\* list objects their run_agent calls create
VARIABLES
    frames,         \* for each worker, the locals of its handle_query and run_agent calls
    heap            \* the list object at each address

\* the process-wide agriculture table and the threads calling get_agri_data
VARIABLES
    df_agri,        \* the global _df_agri: NoTable while it is None
    callers,        \* for each worker, where it is in get_agri_data and its local df
    csv,            \* what is at LOCAL_CSV_PATH
    csvReads        \* how many times pd.read_csv has run

\* the registry and the catalogs rendered from it
VARIABLES
    registry,       \* TOOLS, in registration order
    rendered        \* what the calls of get_tool_definitions returned, in order

agentVars == <<user_query, history, i, prompt, raw_response, tool_name, args, result, returned,
               pc, event, llmCalls, toolCalls, requestsMade, parseCalls, trace, replies,
               structuredUsed>>

parserVars == <<before, obj, after, input, parsed, ppc>>

serverVars == <<frames, heap>>

cacheVars == <<df_agri, callers, csv, csvReads>>

catalogVars == <<registry, rendered>>

\* what the steps of one run_agent call and of safe_json_parse leave alone
serviceVars == <<serverVars, cacheVars, catalogVars>>

vars == <<agentVars, parserVars, serviceVars>>

NotReturned == [key |-> "", value |-> <<>>]

NotParsed == [ok |-> FALSE, val |-> JNull, exc |-> "", msg |-> <<>>, attempts |-> 0,
              repaired |-> FALSE, loaded |-> <<>>]

\* the threads of the pool that runs handle_query
Workers == {"w1", "w2"}

\* the requests one worker serves, one after the other
MaxRequests == 2

\* the address of no list, and of a list bound at module level
NoAddress == <<"", 0>>
ModuleLevel == <<"module", 0>>

\* the addresses a list can have: one per call of run_agent
Addresses == (Workers \X (1..MaxRequests)) \cup {ModuleLevel}

IdleFrame ==
    [pc |-> "idle", query |-> <<>>, served |-> 0, calls |-> 0, user_query |-> <<>>,
     history |-> NoAddress, i |-> 0, seen |-> <<>>, outcome |-> NotReturned,
     response |-> NotReturned]

ServerIdle ==
    /\ frames = [k \in Workers |-> IdleFrame]
    /\ heap = [a \in Addresses |-> <<>>]

\* _df_agri = None at line 74, and a table as it is read, normalized, cleaned
\* cleaned: production_tonnes was added; years: how the year column is held
NoTable == [loaded |-> FALSE, columns |-> "", cleaned |-> FALSE, years |-> ""]

NotCalling == [pc |-> "idle", df |-> NoTable, got |-> NoTable, raised |-> "", accesses |-> 0]

CacheIdle ==
    /\ df_agri = NoTable
    /\ callers = [k \in Workers |-> NotCalling]
    /\ csv = "good"
    /\ csvReads = 0

CatalogIdle ==
    /\ registry = TOOLS
    /\ rendered = <<>>

ServiceIdle == ServerIdle /\ CacheIdle /\ CatalogIdle

ParserIdle ==
    /\ before = <<>>
    /\ obj = JNull
    /\ after = <<>>
    /\ input = <<>>
    /\ parsed = NotParsed
    /\ ppc = "idle"

AgentInit(R) ==
    /\ user_query = UserQuery
    /\ history = <<>>
    /\ i = 0
    /\ prompt = [tool_definitions |-> <<>>, history |-> <<>>, user_query |-> <<>>]
    /\ raw_response = <<>>
    /\ tool_name = JNull
    /\ args = JNull
    /\ result = JNull
    /\ returned = NotReturned
    /\ pc = "for"
    /\ event = "start"
    /\ llmCalls = 0
    /\ toolCalls = 0
    /\ requestsMade = 0
    /\ parseCalls = 0
    /\ trace = <<>>
    /\ replies = R
    /\ structuredUsed = 0

InitWith(R) == AgentInit(R) /\ ParserIdle /\ ServiceIdle

Init == InitWith(StructuredReplies)

\* "\n".join(f"Role: {role}\nContent: {content}" for each entry)
HistoryStr(h) ==
    JoinLines([n \in 1..Len(h) |->
        <<"Role: ", h[n].role, "\nContent: ">> \o h[n].content])

\* a prompt that carries the user's query on the first turn only
ComposePrompt_QueryOnFirstTurn ==
    /\ pc = "for"
    /\ i < MAX_STEPS
    /\ prompt' = [tool_definitions |-> get_tool_definitions,
                  history |-> IF HistoryStr(history) = <<>> THEN <<"No history yet.">>
                              ELSE HistoryStr(history),
                  user_query |-> IF i = 0 THEN user_query ELSE <<>>]
    /\ pc' = "llm"
    /\ event' = "prompt"
    /\ UNCHANGED <<user_query, history, i, raw_response, tool_name, args, result, returned,
                   llmCalls, toolCalls, requestsMade, parseCalls, trace, replies, structuredUsed>>
    /\ UNCHANGED <<parserVars, serviceVars>>

\* lines 383-392: the loop yields i and the prompt is formatted
ComposePrompt ==
    /\ pc = "for"
    /\ i < MAX_STEPS
    /\ prompt' = [tool_definitions |-> get_tool_definitions,
                  history |-> IF HistoryStr(history) = <<>> THEN <<"No history yet.">>
                              ELSE HistoryStr(history),
                  user_query |-> user_query]
    /\ pc' = "llm"
    /\ event' = "prompt"
    /\ UNCHANGED <<user_query, history, i, raw_response, tool_name, args, result, returned,
                   llmCalls, toolCalls, requestsMade, parseCalls, trace, replies, structuredUsed>>
    /\ UNCHANGED <<parserVars, serviceVars>>

\* lines 395-397: llm_call returns text
LlmReturns ==
    /\ pc = "llm"
    /\ \E r \in FinalReplies \cup {ReplyProse}
                \cup (IF structuredUsed < MaxStructured THEN replies ELSE {}) :
          /\ raw_response' = r
          /\ structuredUsed' = IF r \in replies THEN structuredUsed + 1 ELSE structuredUsed
          /\ trace' = Append(trace, KindOf(r))
    /\ llmCalls' = llmCalls + 1
    /\ pc' = "classify"
    /\ event' = "llm_returned"
    /\ UNCHANGED <<user_query, history, i, prompt, tool_name, args, result, returned,
                   toolCalls, requestsMade, parseCalls, replies>>
    /\ UNCHANGED <<parserVars, serviceVars>>

\* the error outcome of lines 398-400
LlmErrorOutcome(e) ==
    [key |-> "error", value |-> <<"Error communicating with LLM: ">> \o e.msg]

\* a failed call that is retried in the next iteration instead of ending the run
LlmFails_Retries ==
    /\ pc = "llm"
    /\ llmCalls' = llmCalls + 1
    /\ trace' = Append(trace, "failure")
    /\ i' = i + 1
    /\ pc' = "for"
    /\ event' = "llm_failed"
    /\ UNCHANGED <<user_query, history, prompt, raw_response, tool_name, args, result,
                   returned, toolCalls, requestsMade, parseCalls, replies, structuredUsed>>
    /\ UNCHANGED <<parserVars, serviceVars>>

\* lines 395-400: llm_call raises
LlmFails ==
    /\ pc = "llm"
    /\ \E e \in LlmErrors :
          IF e.cls \in ExceptionClasses
          THEN /\ returned' = LlmErrorOutcome(e)
               /\ event' = "llm_failed"
          ELSE /\ returned' = [key |-> "raised", value |-> e.msg]
               /\ event' = "raised"
    /\ llmCalls' = llmCalls + 1
    /\ trace' = Append(trace, "failure")
    /\ pc' = "done"
    /\ UNCHANGED <<user_query, history, i, prompt, raw_response, tool_name, args, result,
                   toolCalls, requestsMade, parseCalls, replies, structuredUsed>>
    /\ UNCHANGED <<parserVars, serviceVars>>

\* a classifier that looks for a JSON object before it looks for the marker
IsFinalAnswer_JsonFirst(raw) ==
    startswith(strip(raw), FINAL_MARKER) /\ (find(raw, "{") = -1 \/ rfind(raw, "}") = -1)

\* line 404
IsFinalAnswer(raw) == startswith(strip(raw), FINAL_MARKER)

\* line 406
FinalAnswerText(raw) == strip(replace(strip(raw), FINAL_MARKER, <<>>))

\* line 438
ErrorStr(e) ==
    <<"Error: ">> \o e.msg
    \o <<". The LLM response was not valid JSON or the tool call failed. Make sure to respond with *only* JSON for tool calls or 'Final Answer:' for answers.">>

AssistantEntry(raw) == [role |-> "assistant (tool call)", content |-> raw]
ToolOutputEntry(content) == [role |-> "tool_output", content |-> content]

\* an entry appended only for a response that parses
WithAssistantEntry_ParsedOnly(h, raw) ==
    IF safe_json_parse(raw).ok THEN Append(h, AssistantEntry(raw)) ELSE h

\* line 414: the entry holding the raw response is appended before it is parsed
WithAssistantEntry(h, raw) == Append(h, AssistantEntry(raw))

\* lines 417-421: the exception raised for the tool name in the parsed choice
NameError(name) ==
    IF name.t \in {"obj", "arr"}
    THEN Exc("TypeError", <<"unhashable type: ", name.t>>)
    ELSE IF ~InTools(name)
    THEN Exc("ValueError", <<"LLM chose unknown tool: ">> \o PyStr(name))
    ELSE NoExc

\* lines 416-421 for what safe_json_parse gave
ChoiceError(choice) ==
    IF ~choice.ok THEN Exc(choice.exc, choice.msg)
    ELSE NameError(DictGet(choice.val.v, K_tool, JNull))

\* lines 416-421: the exception raised before the dispatch, NoExc when the
\* response names a registered tool
DecisionError(raw) == ChoiceError(safe_json_parse(raw))

\* a handler written as "except ValueError"
CaughtByExcept_ValueErrorOnly(e) == e.cls = "ValueError"

\* what the handler at line 435 catches
CaughtByExcept(e) == e.cls \in ExceptionClasses

\* a handler that ends the run with an error outcome instead of going on
Except_Returns(h, e, kind) ==
    /\ history' = h
    /\ pc' = "done"
    /\ event' = kind
    /\ returned' = [key |-> "error", value |-> e.msg]
    /\ UNCHANGED i

\* lines 435-439, then the loop goes on; an exception the handler does not
\* catch leaves run_agent
Except(h, e, kind) ==
    IF CaughtByExcept(e)
    THEN /\ history' = Append(h, ToolOutputEntry(ErrorStr(e)))
         /\ i' = i + 1
         /\ pc' = "for"
         /\ event' = kind
         /\ UNCHANGED returned
    ELSE /\ history' = h
         /\ pc' = "done"
         /\ event' = "raised"
         /\ returned' = [key |-> "raised", value |-> e.msg]
         /\ UNCHANGED i

\* lines 404-408
FinalAnswer ==
    /\ pc = "classify"
    /\ IsFinalAnswer(raw_response)
    /\ returned' = [key |-> "final_answer", value |-> FinalAnswerText(raw_response)]
    /\ pc' = "done"
    /\ event' = "final_answer"
    /\ UNCHANGED <<user_query, history, i, prompt, raw_response, tool_name, args, result,
                   llmCalls, toolCalls, requestsMade, parseCalls, trace, replies, structuredUsed>>
    /\ UNCHANGED <<parserVars, serviceVars>>

\* lines 412-421 and 435-439: the response is no final answer and names no
\* registered tool
NoToolCall ==
    /\ pc = "classify"
    /\ ~IsFinalAnswer(raw_response)
    /\ DecisionError(raw_response) # NoExc
    /\ parseCalls' = parseCalls + 1
    /\ Except(WithAssistantEntry(history, raw_response), DecisionError(raw_response),
              IF safe_json_parse(raw_response).ok THEN "unknown_tool" ELSE "parse_error")
    /\ UNCHANGED <<user_query, prompt, raw_response, tool_name, args, result,
                   llmCalls, toolCalls, requestsMade, trace, replies, structuredUsed>>
    /\ UNCHANGED <<parserVars, serviceVars>>

\* lines 412-425: the response names a registered tool, which is about to be called
Dispatch ==
    /\ pc = "classify"
    /\ ~IsFinalAnswer(raw_response)
    /\ DecisionError(raw_response) = NoExc
    /\ parseCalls' = parseCalls + 1
    /\ history' = WithAssistantEntry(history, raw_response)
    /\ LET choice == safe_json_parse(raw_response).val.v
       IN  /\ tool_name' = DictGet(choice, K_tool, JNull)
           /\ args' = DictGet(choice, K_args, JObj(<<>>))
    /\ pc' = "tool"
    /\ event' = "dispatch"
    /\ UNCHANGED <<user_query, i, prompt, raw_response, result, returned,
                   llmCalls, toolCalls, requestsMade, trace, replies, structuredUsed>>
    /\ UNCHANGED <<parserVars, serviceVars>>

\* str(result) in place of json.dumps(result): the quotes come out single
ToolOutputStr_Str(res) == replace(dumps(res), <<"\"">>, <<"'">>)

\* line 429
ToolOutputStr(res) == dumps(res)

\* a handler that is started and not waited for: the loop goes on to the next
\* step before the result is there to be appended
ToolReturns_NotAwaited ==
    /\ pc = "tool"
    /\ \E o \in HandlerOutcomes(FuncOf(tool_name), args) :
          /\ o.kind = "return"
          /\ result' = o.val
          /\ requestsMade' = requestsMade + o.requests
    /\ toolCalls' = toolCalls + 1
    /\ i' = i + 1
    /\ pc' = "for"
    /\ event' = "tool_returned"
    /\ UNCHANGED <<user_query, history, prompt, raw_response, tool_name, args, returned,
                   llmCalls, parseCalls, trace, replies, structuredUsed>>
    /\ UNCHANGED <<parserVars, serviceVars>>

\* lines 426-431: the handler returns a mapping, which is serialized and appended
ToolReturns ==
    /\ pc = "tool"
    /\ \E o \in HandlerOutcomes(FuncOf(tool_name), args) :
          /\ o.kind = "return"
          /\ result' = o.val
          /\ history' = Append(history, ToolOutputEntry(ToolOutputStr(o.val)))
          /\ requestsMade' = requestsMade + o.requests
    /\ toolCalls' = toolCalls + 1
    /\ i' = i + 1
    /\ pc' = "for"
    /\ event' = "tool_returned"
    /\ UNCHANGED <<user_query, prompt, raw_response, tool_name, args, returned,
                   llmCalls, parseCalls, trace, replies, structuredUsed>>
    /\ UNCHANGED <<parserVars, serviceVars>>

\* lines 426 and 435-439: the handler raises
ToolRaises ==
    /\ pc = "tool"
    /\ \E o \in HandlerOutcomes(FuncOf(tool_name), args) :
          /\ o.kind = "raise"
          /\ Except(history, o.exc, "tool_raised")
          /\ requestsMade' = requestsMade + o.requests
    /\ toolCalls' = toolCalls + 1
    /\ UNCHANGED <<user_query, prompt, raw_response, tool_name, args, result,
                   llmCalls, parseCalls, trace, replies, structuredUsed>>
    /\ UNCHANGED <<parserVars, serviceVars>>

StepBudgetOutcome ==
    [key |-> "error",
     value |-> <<"The agent could not produce a final answer after multiple steps. The query may be too complex.">>]

\* lines 442-444: range(MAX_STEPS) is exhausted
MaxStepsReached ==
    /\ pc = "for"
    /\ i >= MAX_STEPS
    /\ returned' = StepBudgetOutcome
    /\ pc' = "done"
    /\ event' = "max_steps"
    /\ UNCHANGED <<user_query, history, i, prompt, raw_response, tool_name, args, result,
                   llmCalls, toolCalls, requestsMade, parseCalls, trace, replies, structuredUsed>>
    /\ UNCHANGED <<parserVars, serviceVars>>

Next ==
    \/ ComposePrompt
    \/ LlmReturns
    \/ LlmFails
    \/ FinalAnswer
    \/ NoToolCall
    \/ Dispatch
    \/ ToolReturns
    \/ ToolRaises
    \/ MaxStepsReached

Spec == Init /\ [][Next]_vars

\* run_agent with an engine whose tool calls carry arguments of every shape
InitArgs == InitWith(ArgumentReplies)

SpecArgs == InitArgs /\ [][Next]_vars

\* run_agent with an engine that asks for the rainfall of single years
InitRain == InitWith(RainfallReplies)

SpecRain == InitRain /\ [][Next]_vars

----------------------------------------------------------------------------
(* safe_json_parse applied to a tool-call object rendered within prose.     *)

\* the longest prose put before and after the object
MaxProse == 2

\* the characters of the prose: a letter, the braces, the single quote
ProseAlphabet == {"a", "{", "}", "'"}

Prose == UNION {[1..n -> ProseAlphabet] : n \in 0..MaxProse}

ToolCallObject(name, a) == JObj(<< <<K_tool, JStr(name)>>, <<K_args, JObj(a)>> >>)

\* tool-call objects: no argument, a number, an apostrophe, braces and a
\* double quote inside a string
Objects ==
    {ToolCallObject(N_get_rainfall_trend, <<>>),
     ToolCallObject(N_get_live_rainfall_data,
                    << <<K_state, JStr(W_Kerala)>>, <<K_year, JInt(1850)>> >>),
     ToolCallObject(<<"t">>, << <<K_crop, JStr(<<"i", "t", "'", "s">>)>> >>),
     ToolCallObject(<<"t">>, << <<K_crop, JStr(<<"}", "{", "\"">>)>> >>)}

ParseInit ==
    /\ AgentInit(StructuredReplies)
    /\ ServiceIdle
    /\ before \in Prose
    /\ obj \in Objects
    /\ after \in Prose
    /\ input = <<>>
    /\ parsed = NotParsed
    /\ ppc = "input"

\* the object is rendered by json.dumps and placed within the prose
Embed ==
    /\ ppc = "input"
    /\ input' = before \o dumps(obj) \o after
    /\ ppc' = "embedded"
    /\ UNCHANGED <<before, obj, after, parsed>>
    /\ UNCHANGED <<agentVars, serviceVars>>

\* safe_json_parse(input)
Parse ==
    /\ ppc = "embedded"
    /\ parsed' = safe_json_parse(input)
    /\ ppc' = "parsed"
    /\ UNCHANGED <<before, obj, after, input>>
    /\ UNCHANGED <<agentVars, serviceVars>>

ParseNext == Embed \/ Parse

ParseSpec == ParseInit /\ [][ParseNext]_vars

----------------------------------------------------------------------------
(* safe_json_parse applied to any text.                                     *)

\* the longest text made of the characters below
MaxText == 4

\* the characters that decide what safe_json_parse does, and a letter
TextAlphabet == {"{", "}", "'", "\"", ":", "a"}

ShortTexts == UNION {[1..n -> TextAlphabet] : n \in 0..MaxText}

\* {"a": "it's"}: valid JSON with an apostrophe inside a string value
TextApostrophe == dumps(JObj(<< <<<<"a">>, JStr(<<"i", "t", "'", "s">>)>> >>))

\* {'a': 'b'}: an object written with single quotes
TextSingleQuoted ==
    replace(dumps(JObj(<< <<<<"a">>, JStr(<<"b">>)>> >>)), <<"\"">>, <<"'">>)

\* {'a': "it's"}: neither valid as it is nor after the quotes are replaced
TextMixedQuotes ==
    <<"{">> \o SQ(<<"a">>) \o <<":", " ">> \o Q(<<"i", "t", "'", "s">>) \o <<"}">>

LongTexts ==
    {ReplyProse, ReplyAgriQuoted, ReplyUnknownTool, TextApostrophe, TextSingleQuoted,
     TextMixedQuotes}

Texts == ShortTexts \cup LongTexts

TextInit ==
    /\ AgentInit(StructuredReplies)
    /\ ServiceIdle
    /\ before = <<>>
    /\ obj = JNull
    /\ after = <<>>
    /\ input \in Texts
    /\ parsed = NotParsed
    /\ ppc = "embedded"

TextSpec == TextInit /\ [][Parse]_vars

----------------------------------------------------------------------------
(* The serving endpoint (main.py).  handle_query is a plain function, so    *)
(* the framework runs each request on a thread of its pool: several calls   *)
(* of run_agent are in progress at once, each with its own locals.  The     *)
(* steps of one call are those of run_agent above, told here by what they   *)
(* do to history and i; an entry carries, besides role and content, the     *)
(* call that appended it.                                                   *)

\* the queries of the requests: the validation of Query accepts any string
Queries == {<<>>, UserQuery}

\* the cross mark the error payloads begin with, which a TLA+ string cannot hold
CROSS_MARK == "<cross mark>"

\* a history bound to one list shared by all calls (a module-level list, or
\* a mutable default argument)
NewList_ModuleLevel(k, n) == ModuleLevel

\* agent.py line 380, history = []: a new list object for this call
NewList(k, n) == <<k, n>>

\* a handle_query without its try: what run_agent raises goes out
Output_NoTry(outcome) ==
    CASE outcome.key = "raised" ->
            [key |-> "raised", value |-> outcome.value]
      [] outcome.key = "final_answer" ->
            [key |-> "output", value |-> outcome.value]
      [] outcome.key = "error" ->
            [key |-> "output", value |-> <<CROSS_MARK, " ">> \o outcome.value]
      [] OTHER ->
            [key |-> "output", value |-> <<"Sorry, I couldn't generate a valid answer.">>]

\* main.py lines 43-48 and 50-51: the payload for what run_agent did
Output(outcome) ==
    CASE outcome.key = "raised" ->
            [key |-> "output", value |-> <<CROSS_MARK, " Unexpected error: ">> \o outcome.value]
      [] outcome.key = "final_answer" ->
            [key |-> "output", value |-> outcome.value]
      [] outcome.key = "error" ->
            [key |-> "output", value |-> <<CROSS_MARK, " ">> \o outcome.value]
      [] OTHER ->
            [key |-> "output", value |-> <<"Sorry, I couldn't generate a valid answer.">>]

\* a request arrives at an idle worker: handle_query(query) is entered
Receive(k) ==
    /\ frames[k].pc \in {"idle", "responded"}
    /\ frames[k].served < MaxRequests
    /\ \E q \in Queries :
          frames' = [frames EXCEPT ![k] =
                        [IdleFrame EXCEPT !.pc = "received", !.query = q,
                                          !.served = frames[k].served + 1]]
    /\ UNCHANGED heap
    /\ UNCHANGED <<agentVars, parserVars, cacheVars, catalogVars>>

\* main.py line 40 and agent.py lines 379-381: run_agent(query.query) is
\* called; history is bound to a new empty list and the loop starts at 0
CallRunAgent(k) ==
    /\ frames[k].pc = "received"
    /\ LET a == NewList(k, frames[k].served)
       IN  /\ frames' = [frames EXCEPT ![k].pc = "for", ![k].calls = @ + 1,
                                        ![k].user_query = frames[k].query,
                                        ![k].history = a, ![k].i = 0]
           /\ heap' = IF a = ModuleLevel THEN heap ELSE [heap EXCEPT ![a] = <<>>]
    /\ UNCHANGED <<agentVars, parserVars, cacheVars, catalogVars>>

\* agent.py lines 383-392: the prompt is composed from the list history names
ComposeFor(k) ==
    /\ frames[k].pc = "for"
    /\ frames[k].i < MAX_STEPS
    /\ frames' = [frames EXCEPT ![k].pc = "llm", ![k].seen = heap[frames[k].history]]
    /\ UNCHANGED heap
    /\ UNCHANGED <<agentVars, parserVars, cacheVars, catalogVars>>

\* agent.py lines 442-444
ExhaustedFor(k) ==
    /\ frames[k].pc = "for"
    /\ frames[k].i >= MAX_STEPS
    /\ frames' = [frames EXCEPT ![k].pc = "returned", ![k].outcome = StepBudgetOutcome]
    /\ UNCHANGED heap
    /\ UNCHANGED <<agentVars, parserVars, cacheVars, catalogVars>>

\* agent.py lines 395-408: llm_call fails, or gives a final answer, or gives
\* something else; or it gives None (line 69, a reply without content), on
\* which line 404 raises AttributeError outside every try of run_agent
ReasonFor(k) ==
    /\ frames[k].pc = "llm"
    /\ \/ \E e \in LlmErrors :
             frames' = [frames EXCEPT ![k].pc = "returned",
                                      ![k].outcome = LlmErrorOutcome(e)]
       \/ \E r \in FinalReplies :
             frames' = [frames EXCEPT ![k].pc = "returned",
                                      ![k].outcome = [key |-> "final_answer",
                                                      value |-> FinalAnswerText(r)]]
       \/ frames' = [frames EXCEPT ![k].pc = "returned",
                                   ![k].outcome =
                                       [key |-> "raised",
                                        value |-> <<"'NoneType' object has no attribute 'strip'">>]]
       \/ frames' = [frames EXCEPT ![k].pc = "classify"]
    /\ UNCHANGED heap
    /\ UNCHANGED <<agentVars, parserVars, cacheVars, catalogVars>>

\* agent.py line 414: the response is appended to the list history names
AppendResponseFor(k) ==
    /\ frames[k].pc = "classify"
    /\ heap' = [heap EXCEPT ![frames[k].history] =
                    Append(@, [role |-> "assistant (tool call)", content |-> <<"<response>">>,
                               by |-> <<k, frames[k].served>>])]
    /\ frames' = [frames EXCEPT ![k].pc = "tool"]
    /\ UNCHANGED <<agentVars, parserVars, cacheVars, catalogVars>>

\* agent.py lines 416-439: the tool's output, or the error, is appended and
\* the loop goes on
FoldFor(k) ==
    /\ frames[k].pc = "tool"
    /\ heap' = [heap EXCEPT ![frames[k].history] =
                    Append(@, [role |-> "tool_output", content |-> <<"<output or error>">>,
                               by |-> <<k, frames[k].served>>])]
    /\ frames' = [frames EXCEPT ![k].pc = "for", ![k].i = @ + 1]
    /\ UNCHANGED <<agentVars, parserVars, cacheVars, catalogVars>>

\* main.py lines 43-51: run_agent has returned or raised, its locals are
\* gone, and the payload is returned
Respond(k) ==
    /\ frames[k].pc = "returned"
    /\ frames' = [frames EXCEPT ![k].pc = "responded",
                                ![k].response = Output(frames[k].outcome),
                                ![k].history = NoAddress, ![k].seen = <<>>]
    /\ heap' = IF frames[k].history = ModuleLevel THEN heap
               ELSE [heap EXCEPT ![frames[k].history] = <<>>]
    /\ UNCHANGED <<agentVars, parserVars, cacheVars, catalogVars>>

ServeNext ==
    \E k \in Workers :
        \/ Receive(k)
        \/ CallRunAgent(k)
        \/ ComposeFor(k)
        \/ ExhaustedFor(k)
        \/ ReasonFor(k)
        \/ AppendResponseFor(k)
        \/ FoldFor(k)
        \/ Respond(k)

ServeSpec == InitWith(StructuredReplies) /\ [][ServeNext]_vars

----------------------------------------------------------------------------
(* get_agri_data, called by the handlers of the agriculture tools on the    *)
(* workers' threads.  Each statement is a step of its own: a thread can be  *)
(* descheduled between any two, and pd.read_csv waits on the file.          *)

\* the calls of get_agri_data one worker makes
MaxAccesses == 2

\* what can be at LOCAL_CSV_PATH: the file, nothing, a file lacking the columns
CsvStates == {"good", "missing", "no_columns"}

CacheInit ==
    /\ AgentInit(StructuredReplies)
    /\ ParserIdle
    /\ ServerIdle
    /\ CatalogIdle
    /\ df_agri = NoTable
    /\ callers = [k \in Workers |-> NotCalling]
    /\ csv \in CsvStates
    /\ csvReads = 0

\* line 76: a handler calls get_agri_data
EnterAgri(k) ==
    /\ callers[k].pc = "idle"
    /\ callers[k].accesses < MaxAccesses
    /\ callers' = [callers EXCEPT ![k] =
                      [NotCalling EXCEPT !.pc = "check", !.accesses = callers[k].accesses + 1]]
    /\ UNCHANGED <<df_agri, csv, csvReads>>
    /\ UNCHANGED <<agentVars, parserVars, serverVars, catalogVars>>

\* lines 79-80: the table is returned when _df_agri is not None
CheckCache(k) ==
    /\ callers[k].pc = "check"
    /\ callers' = IF df_agri # NoTable
                  THEN [callers EXCEPT ![k].pc = "idle", ![k].got = df_agri]
                  ELSE [callers EXCEPT ![k].pc = "exists"]
    /\ UNCHANGED <<df_agri, csv, csvReads>>
    /\ UNCHANGED <<agentVars, parserVars, serverVars, catalogVars>>

\* lines 82-83
CheckExists(k) ==
    /\ callers[k].pc = "exists"
    /\ callers' = IF csv = "missing"
                  THEN [callers EXCEPT ![k].pc = "idle", ![k].raised = "FileNotFoundError"]
                  ELSE [callers EXCEPT ![k].pc = "read"]
    /\ UNCHANGED <<df_agri, csv, csvReads>>
    /\ UNCHANGED <<agentVars, parserVars, serverVars, catalogVars>>

\* line 85: df = pd.read_csv(LOCAL_CSV_PATH)
ReadCsv(k) ==
    /\ callers[k].pc = "read"
    /\ callers' = [callers EXCEPT ![k].pc = "normalize",
                                  ![k].df = [loaded |-> TRUE, columns |-> "raw",
                                             cleaned |-> FALSE, years |-> "raw"]]
    /\ csvReads' = csvReads + 1
    /\ UNCHANGED <<df_agri, csv>>
    /\ UNCHANGED <<agentVars, parserVars, serverVars, catalogVars>>

\* line 86
NormalizeColumns(k) ==
    /\ callers[k].pc = "normalize"
    /\ callers' = [callers EXCEPT ![k].pc = "find", ![k].df.columns = "normalized"]
    /\ UNCHANGED <<df_agri, csv, csvReads>>
    /\ UNCHANGED <<agentVars, parserVars, serverVars, catalogVars>>

\* lines 89-91
FindColumns(k) ==
    /\ callers[k].pc = "find"
    /\ callers' = IF csv = "no_columns"
                  THEN [callers EXCEPT ![k].pc = "idle", ![k].raised = "ValueError",
                                       ![k].df = NoTable]
                  ELSE [callers EXCEPT ![k].pc = "clean"]
    /\ UNCHANGED <<df_agri, csv, csvReads>>
    /\ UNCHANGED <<agentVars, parserVars, serverVars, catalogVars>>

\* the cache bound to the table before the year column is cleaned: the global
\* names the table while it is still being worked on
CleanData_PublishesFirst(k) ==
    /\ callers[k].pc = "clean"
    /\ callers' = [callers EXCEPT ![k].pc = "clean_year", ![k].df.cleaned = TRUE]
    /\ df_agri' = [callers[k].df EXCEPT !.cleaned = TRUE]
    /\ UNCHANGED <<csv, csvReads>>
    /\ UNCHANGED <<agentVars, parserVars, serverVars, catalogVars>>

\* line 94: production_tonnes is added
CleanData(k) ==
    /\ callers[k].pc = "clean"
    /\ callers' = [callers EXCEPT ![k].pc = "clean_year", ![k].df.cleaned = TRUE]
    /\ UNCHANGED <<df_agri, csv, csvReads>>
    /\ UNCHANGED <<agentVars, parserVars, serverVars, catalogVars>>

\* lines 95-96: the year column is made integer
CleanYear(k) ==
    /\ callers[k].pc = "clean_year"
    /\ callers' = [callers EXCEPT ![k].pc = "publish", ![k].df.years = "int"]
    /\ UNCHANGED <<df_agri, csv, csvReads>>
    /\ UNCHANGED <<agentVars, parserVars, serverVars, catalogVars>>

\* lines 99-100: _df_agri = df; return df
PublishTable(k) ==
    /\ callers[k].pc = "publish"
    /\ df_agri' = callers[k].df
    /\ callers' = [callers EXCEPT ![k].pc = "idle", ![k].got = callers[k].df,
                                  ![k].df = NoTable]
    /\ UNCHANGED <<csv, csvReads>>
    /\ UNCHANGED <<agentVars, parserVars, serverVars, catalogVars>>

CacheNext ==
    \E k \in Workers :
        \/ EnterAgri(k)
        \/ CheckCache(k)
        \/ CheckExists(k)
        \/ ReadCsv(k)
        \/ NormalizeColumns(k)
        \/ FindColumns(k)
        \/ CleanData(k)
        \/ CleanYear(k)
        \/ PublishTable(k)

CacheSpec == CacheInit /\ [][CacheNext]_vars

----------------------------------------------------------------------------
(* get_tool_definitions called on a registry.  A dict keeps its keys in     *)
(* insertion order and holds each key once, so a registry is an arrangement *)
(* of distinct entries.                                                     *)

\* the calls of get_tool_definitions made on one registry
MaxRenders == 2

Arrangements ==
    {p \in UNION {[1..m -> 1..Len(TOOLS)] : m \in 0..Len(TOOLS)} :
        \A a, b \in DOMAIN p : a # b => p[a] # p[b]}

Registries == {[n \in DOMAIN p |-> TOOLS[p[n]]] : p \in Arrangements}

CatalogInit ==
    /\ AgentInit(StructuredReplies)
    /\ ParserIdle
    /\ ServerIdle
    /\ CacheIdle
    /\ registry \in Registries
    /\ rendered = <<>>

\* lines 366-371, TOOLS left as it is
Render ==
    /\ Len(rendered) < MaxRenders
    /\ rendered' = Append(rendered, RenderTools(registry))
    /\ UNCHANGED registry
    /\ UNCHANGED <<agentVars, parserVars, serverVars, cacheVars>>

CatalogSpec == CatalogInit /\ [][Render]_vars

----------------------------------------------------------------------------
(* Properties of run_agent.                                                 *)

Last(h) == h[Len(h)]

TraceKinds == {trace[n] : n \in 1..Len(trace)}

\* every reply so far was unparseable text or named an unknown tool, and no
\* call of llm_call failed
OnlyInvalidReplies == TraceKinds \subseteq {"unparseable", "unknown_tool"}

\* C1: when every reply is unparseable or names an unknown tool and no
\* reasoning call fails, run_agent makes exactly 8 reasoning calls, calls no
\* handler, and returns the step-budget error; a 9th cycle never starts.
C1_StepBudgetOnInvalidReplies ==
    /\ llmCalls <= 8
    /\ i <= 8
    /\ Len(trace) = llmCalls
    /\ OnlyInvalidReplies => toolCalls = 0 /\ pc # "tool"
    /\ (OnlyInvalidReplies /\ pc = "done") => llmCalls = 8 /\ returned = StepBudgetOutcome

C1_Witness ==
    /\ pc = "done"
    /\ TraceKinds = {"unparseable", "unknown_tool"}
    /\ llmCalls = 8
    /\ toolCalls = 0
    /\ returned = StepBudgetOutcome

\* the outcomes run_agent can have had so far
OneOfThreeOutcomes ==
    /\ llmCalls <= 8
    /\ returned.key \in {"", "final_answer", "error"}
    /\ pc = "done" <=> returned.key # ""
    /\ returned.key = "error" =>
          \/ returned = StepBudgetOutcome
          \/ \E e \in LlmErrors : returned = LlmErrorOutcome(e)
    /\ returned = StepBudgetOutcome =>
          llmCalls = 8 /\ TraceKinds \cap {"final", "failure"} = {}
    /\ (pc = "done" /\ "final" \in TraceKinds) => returned.key = "final_answer"

\* run_agent is never stuck before it returns: the response is classified
\* one way or another, and the handler called returns or raises
NeverStuck ==
    /\ pc \in {"for", "llm", "classify", "tool", "done"}
    /\ pc = "classify" =>
          \/ startswith(strip(raw_response), FINAL_MARKER)
          \/ DecisionError(raw_response) # NoExc
          \/ FuncOf(DictGet(safe_json_parse(raw_response).val.v, K_tool, JNull)) # ""
    /\ pc = "tool" => HandlerOutcomes(FuncOf(tool_name), args) # {}

\* what is left of the run at most: 4 steps for each of the 8 cycles
StepsLeft ==
    4 * (8 - i) + (CASE pc = "for" -> 4 [] pc = "llm" -> 3 [] pc = "classify" -> 2
                     [] pc = "tool" -> 1 [] pc = "done" -> 4 * (i - 8))

C3_LlmFailureAborts ==
    [][/\ (pc = "llm" /\ Len(trace') > Len(trace) /\ Last(trace') = "failure") =>
            /\ pc' = "done"
            /\ \E e \in LlmErrors : returned' = LlmErrorOutcome(e)
            /\ history' = history
            /\ toolCalls' = toolCalls
            /\ llmCalls' = llmCalls + 1
       /\ pc # "done"]_vars

C3_Witness ==
    /\ pc = "done"
    /\ event = "llm_failed"
    /\ Last(trace) = "failure"
    /\ llmCalls >= 3
    /\ toolCalls >= 1

\* C4: a response whose trimmed text begins with the marker ends the run in
\* that step with a final answer, even when it holds a well-formed tool call:
\* safe_json_parse is not called, no handler is called, history is not touched.
C4_MarkerPrecedence ==
    [][(pc = "classify" /\ startswith(strip(raw_response), FINAL_MARKER)) =>
            /\ pc' = "done"
            /\ returned'.key = "final_answer"
            /\ parseCalls' = parseCalls
            /\ toolCalls' = toolCalls
            /\ history' = history]_vars

C4_Witness ==
    /\ pc = "done"
    /\ returned.key = "final_answer"
    /\ raw_response = ReplyFinalWithCall
    /\ safe_json_parse(raw_response).ok
    /\ DictGet(safe_json_parse(raw_response).val.v, K_tool, JNull)
          = JStr(N_get_local_agriculture_data)

\* the response parses to an object whose tool is no key of the registry
NamesNoRegisteredTool(raw) ==
    /\ ~startswith(strip(raw), FINAL_MARKER)
    /\ safe_json_parse(raw).ok
    /\ DictGet(safe_json_parse(raw).val.v, K_tool, JNull) \notin {JStr(n) : n \in ToolNames}

IsDiagnostic(entry) ==
    entry.role = "tool_output" /\ startswith(entry.content, <<"Error: ">>)

\* C5: a response naming no registered tool (or holding no tool key) leads
\* to no handler call in that step; a tool_output diagnostic is appended and
\* the loop goes on to its next iteration.  A handler is only ever about to
\* be called for a registered name.
C5_UnknownToolNeverDispatched ==
    [][/\ (pc = "classify" /\ NamesNoRegisteredTool(raw_response)) =>
            /\ pc' = "for"
            /\ i' = i + 1
            /\ toolCalls' = toolCalls
            /\ returned' = NotReturned
            /\ Len(history') > Len(history)
            /\ IsDiagnostic(Last(history'))
       /\ pc' = "tool" => tool_name' \in {JStr(n) : n \in ToolNames}]_vars

C5_Witness ==
    /\ pc = "for"
    /\ event = "unknown_tool"
    /\ raw_response = ReplyNoToolKey
    /\ "unknown_tool" \in {trace[n] : n \in 1..(Len(trace) - 1)}
    /\ toolCalls = 0
    /\ IsDiagnostic(Last(history))

\* the handler about to be called can only raise
HandlerOnlyRaises ==
    /\ pc = "tool"
    /\ \A o \in HandlerOutcomes(FuncOf(tool_name), args) : o.kind = "raise"

\* C6: when the dispatched handler raises, the exception is caught: one
\* tool_output entry carrying the error message is appended, one step of the
\* budget is used, and the loop goes on; that step does not return.
C6_HandlerExceptionFolded ==
    [][HandlerOnlyRaises =>
            /\ pc' = "for"
            /\ i' = i + 1
            /\ toolCalls' = toolCalls + 1
            /\ returned' = NotReturned
            /\ \E o \in HandlerOutcomes(FuncOf(tool_name), args) :
                  /\ o.exc.cls \in ExceptionClasses
                  /\ history' = Append(history,
                                       [role |-> "tool_output",
                                        content |-> ErrorStr(o.exc)])]_vars

C6_Witness ==
    /\ pc = "for"
    /\ event = "tool_raised"
    /\ toolCalls = 2
    /\ i = 2
    /\ raw_response = ReplyArgsNotMapping
    /\ IsDiagnostic(history[2])
    /\ IsDiagnostic(history[4])
    /\ history[2] # history[4]

\* C7: when a registered handler returns a mapping, a success or a domain
\* error alike, the entry appended is tool_output with exactly the JSON
\* serialization of that mapping, and the loop goes on; an entry holding a
\* tool result is only appended so, in the step in which the handler
\* registered under the parsed name was called with the parsed arguments.
C7_ToolResultFoldedUnchanged ==
    [][/\ (pc = "tool" /\ event' = "tool_returned") =>
            /\ \E o \in HandlerOutcomes(FuncOf(tool_name), args) :
                  /\ o.kind = "return"
                  /\ o.val.t = "obj"
                  /\ result' = o.val
                  /\ history' = Append(history,
                                       [role |-> "tool_output", content |-> dumps(o.val)])
            /\ pc' = "for"
            /\ i' = i + 1
            /\ returned' = NotReturned
            /\ tool_name \in {JStr(n) : n \in ToolNames}
            /\ tool_name = DictGet(safe_json_parse(raw_response).val.v, K_tool, JNull)
            /\ args = DictGet(safe_json_parse(raw_response).val.v, K_args, JObj(<<>>))
       /\ (/\ Len(history') > Len(history)
           /\ Last(history').role = "tool_output"
           /\ ~IsDiagnostic(Last(history'))) =>
            pc = "tool" /\ event' = "tool_returned"]_vars

C7_Witness ==
    /\ pc = "for"
    /\ event = "tool_returned"
    /\ toolCalls = 2
    /\ HasKey(result.v, K_error)
    /\ Last(history).content = dumps(result)
    /\ loads(history[2].content).ok
    /\ ~HasKey(loads(history[2].content).val.v, K_error)

\* C8: an "assistant (tool call)" entry is appended only for a response that
\* parsed to a tool call naming a registered tool.
C8_AssistantEntryOnlyForToolCalls ==
    \A n \in 1..Len(history) :
        history[n].role = "assistant (tool call)" =>
            /\ safe_json_parse(history[n].content).ok
            /\ DictGet(safe_json_parse(history[n].content).val.v, K_tool, JNull)
                  \in {JStr(name) : name \in ToolNames}

\* C10: the answer returned for a response that begins with the marker is
\* the trimmed text with that leading marker cut off, trimmed again.
C10_OnlyLeadingMarkerRemoved ==
    (pc = "done" /\ returned.key = "final_answer") =>
        returned.value = strip(SubSeq(strip(raw_response), Len(FINAL_MARKER) + 1,
                                      Len(strip(raw_response))))

----------------------------------------------------------------------------
(* Properties of safe_json_parse.                                           *)

\* C9, as stated: a tool-call object rendered as JSON and embedded anywhere
\* within prose is recovered by safe_json_parse.
C9_RoundTripAnywhere ==
    ppc = "parsed" => parsed.ok /\ JEq(parsed.val, obj)

\* C9, amended: the object is recovered when the prose before it holds no
\* '{' and the prose after it holds no '}'.
C9_RoundTripWithoutStrayBraces ==
    (ppc = "parsed" /\ find(before, "{") = -1 /\ find(after, "}") = -1) =>
        parsed.ok /\ JEq(parsed.val, obj)

C9_Witness ==
    /\ ppc = "parsed"
    /\ before = <<"'", "}">>
    /\ after = <<"{", "a">>
    /\ HasKey(DictGet(obj.v, K_args, JNull).v, K_crop)
    /\ parsed.ok
    /\ JEq(parsed.val, obj)
    /\ parsed.attempts = 1

\* the slice safe_json_parse cuts out of the text: first '{' to last '}'
BraceSlice(text) == Slice(text, find(text, "{"), rfind(text, "}"))

\* the failing cases: no '{', no '}', the last '}' before the first '{', or
\* the slice is no JSON as it is nor with its single quotes replaced
FailingCase(text) ==
    \/ find(text, "{") = -1
    \/ rfind(text, "}") = -1
    \/ rfind(text, "}") < find(text, "{")
    \/ /\ ~loads(BraceSlice(text)).ok
       /\ ~loads(replace(BraceSlice(text), <<"'">>, <<"\"">>)).ok

\* C11: in each failing case (no '{', no '}', last '}' before first '{',
\* strict and repaired parse both failing) safe_json_parse raises ValueError
\* whose message carries the original text, and it raises nothing else.
C11_ParseErrorCarriesText ==
    ppc = "parsed" =>
        /\ FailingCase(input) =>
              /\ ~parsed.ok
              /\ parsed.exc = "ValueError"
              /\ parsed.msg = <<"Failed to parse JSON from LLM response: ">> \o input
        /\ ~parsed.ok => parsed.exc = "ValueError" /\ FailingCase(input)

C11_Witness ==
    /\ ppc = "parsed"
    /\ input = ReplyProse
    /\ find(input, "{") = -1
    /\ parsed.exc = "ValueError"
    /\ parsed.msg = <<"Failed to parse JSON from LLM response: ">> \o input

\* C19: safe_json_parse hands at most two texts to json.loads: first the
\* slice from the first '{' to the last '}', and, only when that is no valid
\* JSON, the slice with every single quote replaced by a double quote.  When
\* the slice is valid JSON its value is returned as it is, apostrophes
\* inside string values included.
C19_StrictThenOneRepair ==
    ppc = "parsed" =>
        /\ Len(parsed.loaded) <= 2
        /\ parsed.attempts = Len(parsed.loaded)
        /\ Len(parsed.loaded) >= 1 => parsed.loaded[1] = BraceSlice(input)
        /\ Len(parsed.loaded) = 2 =>
              /\ ~loads(parsed.loaded[1]).ok
              /\ parsed.loaded[2] = replace(parsed.loaded[1], <<"'">>, <<"\"">>)
        /\ (find(input, "{") # -1 /\ rfind(input, "}") # -1 /\ loads(BraceSlice(input)).ok) =>
              /\ Len(parsed.loaded) = 1
              /\ ~parsed.repaired
              /\ parsed.ok
              /\ parsed.val = loads(BraceSlice(input)).val

C19_Witness ==
    /\ ppc = "parsed"
    /\ input = ReplyAgriQuoted
    /\ parsed.ok
    /\ parsed.repaired
    /\ Len(parsed.loaded) = 2
    /\ parsed.loaded[1] # parsed.loaded[2]

----------------------------------------------------------------------------
(* Properties of the serving endpoint.                                      *)

\* the worker is inside a call of run_agent
Running(k) == frames[k].pc \in {"for", "llm", "classify", "tool"}

\* C12: under every interleaving of the workers' calls of run_agent, and
\* from one request of a worker to its next, the list a call's history names
\* and the entries its prompt was composed from hold only entries that call
\* appended; the list is empty and i is 0 when the call starts, the entries
\* there are twice the steps the call itself made, and no two calls in
\* progress name the same list.
C12_HistoryLocalToInvocation ==
    \A k \in Workers :
        Running(k) =>
            LET h    == heap[frames[k].history]
                self == <<k, frames[k].served>>
            IN  /\ \A n \in 1..Len(h) : h[n].by = self
                /\ \A n \in 1..Len(frames[k].seen) : frames[k].seen[n].by = self
                /\ Len(h) = 2 * frames[k].i + (IF frames[k].pc = "tool" THEN 1 ELSE 0)
                /\ frames[k].pc = "llm" => frames[k].seen = h
                /\ frames[k].i <= 8
                /\ \A j \in Workers \ {k} :
                      Running(j) => frames[j].history # frames[k].history

C12_Witness ==
    /\ frames["w1"].pc = "llm"
    /\ frames["w1"].served = 2
    /\ frames["w1"].i = 1
    /\ Len(frames["w1"].seen) = 2
    /\ frames["w2"].pc = "tool"
    /\ frames["w2"].i = 2
    /\ Len(heap[frames["w2"].history]) = 5

\* C16: handle_query calls run_agent once for a request, with the query as
\* it came (the empty string too), and always returns an output payload:
\* the answer for a final_answer outcome, a message behind the cross mark
\* for an error outcome and for an exception raised by run_agent; no
\* exception goes out of it.
C16_OneCallOneOutput ==
    \A k \in Workers :
        /\ frames[k].calls <= 1
        /\ frames[k].pc \notin {"idle", "received"} =>
              frames[k].calls = 1 /\ frames[k].user_query = frames[k].query
        /\ frames[k].pc = "responded" =>
              /\ frames[k].response.key = "output"
              /\ frames[k].outcome.key \in {"final_answer", "error", "raised"}
              /\ frames[k].outcome.key = "final_answer" =>
                    frames[k].response.value = frames[k].outcome.value
              /\ frames[k].outcome.key = "error" =>
                    frames[k].response.value = <<CROSS_MARK, " ">> \o frames[k].outcome.value
              /\ frames[k].outcome.key = "raised" =>
                    frames[k].response.value
                        = <<CROSS_MARK, " Unexpected error: ">> \o frames[k].outcome.value

C16_Witness ==
    /\ frames["w1"].pc = "responded"
    /\ frames["w1"].query = <<>>
    /\ frames["w1"].outcome.key = "raised"
    /\ frames["w1"].response.key = "output"
    /\ frames["w2"].pc = "responded"
    /\ frames["w2"].outcome = StepBudgetOutcome
    /\ frames["w2"].response.value[1] = CROSS_MARK

----------------------------------------------------------------------------
(* Properties of get_agri_data.                                             *)

\* C13: with the file in place, under every interleaving of the threads'
\* first calls of get_agri_data the CSV is read (and the table cleaned) at
\* most once in the process, and a call that returns a table returns the
\* one the cache holds.
C13_LoadedAtMostOnce ==
    csv = "good" =>
        /\ csvReads <= 1
        /\ \A k \in Workers :
              (callers[k].pc = "idle" /\ callers[k].got # NoTable) => callers[k].got = df_agri

\* a table that was read, had its columns normalized and both cleanings done
FullyCleaned(t) ==
    t.loaded /\ t.columns = "normalized" /\ t.cleaned /\ t.years = "int"

\* the calls of get_agri_data by k that have reached pd.read_csv
ReadsBy(k) ==
    callers[k].accesses - (IF callers[k].pc \in {"check", "exists", "read"} THEN 1 ELSE 0)

RECURSIVE ReadsByAll(_)
ReadsByAll(W) ==
    IF W = {} THEN 0
    ELSE LET k == CHOOSE w \in W : TRUE IN ReadsBy(k) + ReadsByAll(W \ {k})

\* what the global holds: nothing, or a table on which all of lines 85-96 ran
PublishedWhole ==
    /\ df_agri = NoTable \/ FullyCleaned(df_agri)
    /\ csv # "good" => df_agri = NoTable

\* a file that cannot be loaded is tried by every call: each call that is
\* over raised, and with the columns missing each call read the file itself
FailedLoadRetried ==
    /\ csv = "missing" =>
          \A k \in Workers :
              (callers[k].pc = "idle" /\ callers[k].accesses > 0)
                  => callers[k].raised = "FileNotFoundError"
    /\ csv = "no_columns" =>
          /\ csvReads = ReadsByAll(Workers)
          /\ \A k \in Workers :
                (callers[k].pc = "idle" /\ callers[k].accesses > 0)
                    => callers[k].raised = "ValueError"

\* C21: under every interleaving of callers the global _df_agri is unset
\* or a fully cleaned table, being assigned only once loading and cleaning
\* are done; a load that fails (file missing, columns missing) assigns
\* nothing, so the cache stays unset and the next call loads again.
C21_PublishedAfterCleaning ==
    /\ [](PublishedWhole /\ FailedLoadRetried)
    /\ [][/\ df_agri' # df_agri =>
               \E k \in Workers : callers[k].pc = "publish" /\ df_agri' = callers[k].df
                                   /\ FullyCleaned(callers[k].df)
          /\ \A k \in Workers :
                (callers[k].raised = "" /\ callers'[k].raised # "") => df_agri' = NoTable]_vars

C21_Witness ==
    /\ FullyCleaned(df_agri)
    /\ \E k \in Workers : callers[k].pc = "clean_year" /\ ~FullyCleaned(callers[k].df)

\* a second call after a failed load has read the file again
C21_RetryReached ==
    /\ csv = "no_columns"
    /\ df_agri = NoTable
    /\ \E k \in Workers :
          /\ callers[k].accesses = 2
          /\ callers[k].pc = "idle"
          /\ callers[k].raised = "ValueError"
    /\ csvReads >= 2

----------------------------------------------------------------------------
(* Properties of get_tool_definitions.                                      *)

\* where the label that opens a block stands in a catalog
LabelPositions(text) == {p \in 1..Len(text) : text[p] = "- Tool: "}

\* the position of the n-th label
NthLabel(text, n) ==
    CHOOSE p \in LabelPositions(text) :
        Cardinality({q \in LabelPositions(text) : q < p}) = n - 1

\* the n-th block: from its label up to the line break before the next one
BlockAt(text, n) ==
    SubSeq(text, NthLabel(text, n),
           IF n = Cardinality(LabelPositions(text)) THEN Len(text)
           ELSE NthLabel(text, n + 1) - 2)

\* C14: calls of get_tool_definitions on an unchanged registry return the
\* same text, and that text holds one labelled block per registered tool,
\* in registration order, each made of the tool's name, its description
\* and its schema as JSON.
C14_CatalogStableAndComplete ==
    \A c \in 1..Len(rendered) :
        /\ rendered[c] = rendered[1]
        /\ Cardinality(LabelPositions(rendered[c])) = Len(registry)
        /\ \A n \in 1..Len(registry) :
              BlockAt(rendered[c], n) =
                  <<"- Tool: ", BACKQUOTE>> \o registry[n].name
                  \o <<BACKQUOTE, "\n  - Description: ">> \o registry[n].desc
                  \o <<"\n  - Arguments (JSON Schema): ">> \o dumps(registry[n].schema)
        /\ \A n \in 1..(Len(registry) - 1) :
              rendered[c][NthLabel(rendered[c], n + 1) - 1] = "\n"

C14_Witness ==
    /\ registry = TOOLS
    /\ Len(rendered) = 2
    /\ rendered[2] = get_tool_definitions

----------------------------------------------------------------------------
(* Properties of get_live_rainfall_data within the loop.                    *)

\* the handler about to run is get_live_rainfall_data, called with a state
\* and a year that is a number outside 1901..2017
YearOutOfRange ==
    /\ pc = "tool"
    /\ tool_name = JStr(N_get_live_rainfall_data)
    /\ args.t = "obj"
    /\ Keys(args.v) = {K_state, K_year}
    /\ DictGet(args.v, K_year, JNull).t = "int"
    /\ LET year == DictGet(args.v, K_year, JNull).v
       IN  year < 1901 \/ year > 2017

\* the mapping the claim describes for the year
InvalidYearResult(year) ==
    JObj(<< <<K_error, JStr(<<"Invalid year ">> \o IntText(year)
                            \o <<". Data is only available from 1901 to 2017.">>)>>,
            <<K_source, JStr(RAINFALL_SOURCE_NAME)>> >>)

\* C15: a call of get_live_rainfall_data for a year outside 1901..2017
\* returns the mapping whose error names the range 1901 to 2017 and whose
\* source is the rainfall source string, without a network request; the
\* loop appends it to history as a tool_output entry and goes on to the
\* next step instead of returning.
C15_YearOutOfRangeFolded ==
    [][YearOutOfRange =>
          /\ result' = InvalidYearResult(DictGet(args.v, K_year, JNull).v)
          /\ history' = Append(history, [role |-> "tool_output", content |-> dumps(result')])
          /\ requestsMade' = requestsMade
          /\ returned' = NotReturned
          /\ pc' = "for"
          /\ i' = i + 1]_vars

C15_Witness ==
    /\ Len(history) = 2
    /\ history[1].content = RainfallReply(1850)
    /\ history[2].role = "tool_output"
    /\ result = InvalidYearResult(1850)
    /\ requestsMade = 0
    /\ pc = "llm"
    /\ i = 1

----------------------------------------------------------------------------
(* Properties of the loop's order and of the history it keeps.              *)

\* the reasoning calls made match the step and the place within it
ReasonedOncePerStep ==
    /\ pc \in {"for", "llm"} => llmCalls = i
    /\ pc \in {"classify", "tool"} => llmCalls = i + 1
    /\ toolCalls + (IF pc = "tool" THEN 1 ELSE 0) <= llmCalls

\* a reasoning call is made at its place in the step and by itself
ReasoningAlone ==
    llmCalls' # llmCalls =>
        /\ pc = "llm"
        /\ llmCalls' = llmCalls + 1
        /\ toolCalls' = toolCalls
        /\ history' = history

\* a handler runs after the response was classified and is done, its result
\* or error in history, when the loop moves on
HandlerAloneAndFolded ==
    toolCalls' # toolCalls =>
        /\ pc = "tool"
        /\ toolCalls' = toolCalls + 1
        /\ llmCalls' = llmCalls
        /\ pc' \in {"for", "done"}
        /\ pc' = "for" =>
              /\ history' = Append(history, Last(history'))
              /\ Last(history').role = "tool_output"

\* C17: within one run the steps are sequential: each step makes one
\* reasoning call; a response leads to at most one handler call, made after
\* the reasoning call returned and folded into history before the next
\* reasoning call; no two calls overlap.
C17_StrictlySequential ==
    []ReasonedOncePerStep /\ [][ReasoningAlone /\ HandlerAloneAndFolded]_vars

C17_Witness ==
    /\ pc = "classify"
    /\ llmCalls = 3
    /\ toolCalls = 2
    /\ Len(history) = 4

PairsOfEntries ==
    pc \in {"for", "llm"} =>
        /\ Len(history) = 2 * i
        /\ \A n \in 1..Len(history) :
              history[n].role = IF n % 2 = 1 THEN "assistant (tool call)" ELSE "tool_output"

\* a step that does not end the run appends the response, then a tool_output
StepAppendsPair ==
    i' = i + 1 =>
        /\ Len(history') = 2 * i + 2
        /\ SubSeq(history', 1, 2 * i) = SubSeq(history, 1, 2 * i)
        /\ history'[2 * i + 1] = [role |-> "assistant (tool call)", content |-> raw_response]
        /\ history'[2 * i + 2].role = "tool_output"

\* C20: when the prompt of step i is composed history holds 2*i entries
\* whose roles alternate, assistant (tool call) first; every step that does
\* not end the run appends one entry of each role in that order, the first
\* holding the raw response of the step.
C20_HistoryShape ==
    []PairsOfEntries /\ [][StepAppendsPair]_vars

C20_Witness ==
    /\ pc = "llm"
    /\ i = 2
    /\ Len(history) = 4
    /\ history[1].content = ReplyProse
    /\ history[3].content = ReplyUnknownTool
====
